---- MODULE Spec2Model ----
(***************************************************************************)
(* Campaign Execution Engine of rtx_innovations_electron/src/main.js:      *)
(* the session (OAuth client, provider clients, credential store), the     *)
(* campaign runner and the one-time scheduler.                             *)
(*                                                                         *)
(* Node runs one handler at a time; a handler runs until it returns or     *)
(* reaches an await on real I/O (a provider call, a timer).  Each action   *)
(* below is one such stretch: from the event that resumes the code up to   *)
(* the next provider call or timer it waits for.                           *)
(***************************************************************************)
EXTENDS Integers, Sequences, FiniteSets, TLC

(* ---------------------------------------------------------------- bounds *)
MaxJobs == 1          \* scheduleOneTime calls made in one behaviour
MaxFaults == 1        \* external calls (provider, bind, browser) that fail in one behaviour
MaxAuth == 1          \* authenticate calls made in one behaviour
MaxRequests == 1      \* requests sent to the callback listeners in one behaviour

(* ------------------------------------------------------------- constants *)
Null == "null"        \* JavaScript null / undefined, for string values
NullUri == <<>>       \* a redirect URI that is null

Max(a, b) == IF a >= b THEN a ELSE b
Min(S) == CHOOSE x \in S : \A y \in S : x <= y

(* Strings that the code inspects character by character (header names)   *)
(* are sequences of one-character strings.                                 *)
Uppers == <<"A","B","C","D","E","F","G","H","I","J","K","L","M",
            "N","O","P","Q","R","S","T","U","V","W","X","Y","Z">>
Lowers == <<"a","b","c","d","e","f","g","h","i","j","k","l","m",
            "n","o","p","q","r","s","t","u","v","w","x","y","z">>

toLowerCase(s) ==
  [k \in 1..Len(s) |->
     IF \E u \in 1..26 : Uppers[u] = s[k]
       THEN Lowers[CHOOSE u \in 1..26 : Uppers[u] = s[k]]
       ELSE s[k]]

RECURSIVE trimStart(_)
trimStart(s) == IF s # <<>> /\ Head(s) = " " THEN trimStart(Tail(s)) ELSE s

RECURSIVE trimEnd(_)
trimEnd(s) ==
  IF s # <<>> /\ s[Len(s)] = " " THEN trimEnd(SubSeq(s, 1, Len(s) - 1)) ELSE s

trim(s) == trimEnd(trimStart(s))

includes(s, sub) ==
  \E k \in 0..(Len(s) - Len(sub)) : SubSeq(s, k + 1, k + Len(sub)) = sub

\* Array.prototype.findIndex: 0-based index of the first match, -1 if none.
findIndex(arr, P(_)) ==
  IF \E k \in 1..Len(arr) : P(arr[k])
    THEN (CHOOSE k \in 1..Len(arr) :
            P(arr[k]) /\ \A m \in 1..(k - 1) : ~P(arr[m])) - 1
    ELSE -1

STR_email  == <<"e","m","a","i","l">>
STR_status == <<"s","t","a","t","u","s">>
STR_Status == <<"S","t","a","t","u","s">>

(* --- renderWithRow (lines 678-687); texts are sequences of characters --- *)
\* a row cell: None for null or undefined, else Some(text)
None == <<>>
Some(text) == <<text>>

\* row[i] for a 0-based i
RowCell(row, i) == IF i + 1 <= Len(row) THEN row[i + 1] ELSE None

\* line 682: the text the regular expression of a key matches, the key
\* being escaped: ((key))
Pattern(key) == <<"(", "(">> \o key \o <<")", ")">>

\* the replacement text of String.prototype.replace for one match: $& stands
\* for the matched text and $$ for a dollar sign
RECURSIVE GetSubstitution(_, _)
GetSubstitution(replacement, matched) ==
  IF Len(replacement) >= 2 /\ replacement[1] = "$" /\ replacement[2] = "&"
    THEN matched \o GetSubstitution(SubSeq(replacement, 3, Len(replacement)), matched)
  ELSE IF Len(replacement) >= 2 /\ replacement[1] = "$" /\ replacement[2] = "$"
    THEN <<"$">> \o GetSubstitution(SubSeq(replacement, 3, Len(replacement)), matched)
  ELSE IF replacement = <<>> THEN <<>>
  ELSE <<replacement[1]>> \o GetSubstitution(Tail(replacement), matched)

\* out.replace(re, replacement) for the global expression matching `pattern`:
\* every match from left to right, the inserted text is not scanned again
RECURSIVE replaceAll(_, _, _)
replaceAll(out, pattern, replacement) ==
  IF Len(out) < Len(pattern) THEN out
  ELSE IF SubSeq(out, 1, Len(pattern)) = pattern
    THEN GetSubstitution(replacement, pattern)
           \o replaceAll(SubSeq(out, Len(pattern) + 1, Len(out)), pattern, replacement)
  ELSE <<out[1]>> \o replaceAll(Tail(out), pattern, replacement)

\* line 685: signature.replace(/<[^>]+>/g, '')
RECURSIVE stripTags(_)
stripTags(sig) ==
  IF sig = <<>> THEN <<>>
  ELSE LET closes == {k \in 2..Len(sig) : sig[k] = ">"}
           close == Min(closes)
       IN IF sig[1] = "<" /\ closes # {} /\ close > 2
            THEN stripTags(SubSeq(sig, close + 1, Len(sig)))
            ELSE <<sig[1]>> \o stripTags(Tail(sig))

\* the forEach of lines 680-684 from header index i (0-based) on
RECURSIVE renderFrom(_, _, _, _)
renderFrom(out, headers, row, i) ==
  IF i >= Len(headers) THEN out
  ELSE LET key == trim(headers[i + 1])
           cell == RowCell(row, i)
           replacement == IF cell # None THEN cell[1] ELSE <<>>
       IN renderFrom(replaceAll(out, Pattern(key), replacement), headers, row, i + 1)

renderWithRow(content, headers, row, signature) ==
  LET out == renderFrom(content, headers, row, 0)
  IN IF signature # <<>> THEN out \o <<"\n", "\n">> \o stripTags(signature)
     ELSE out

(* ------------------------------------------------ the external spreadsheets *)
H_Name   == <<"N","a","m","e">>
H_Email  == <<"E","m","a","i","l">>
H_EMAIL  == <<"E","-","M","A","I","L"," ","E","M","A","I","L">>
H_status == <<" ","s","t","a","t","u","S"," ">>

SheetIds == {"S1", "S2", "S3", "S4"}

\* title of the first tab of each spreadsheet
FirstTab(s) == IF s = "S2" THEN "Data" ELSE "Sheet1"

\* header row of the first tab before any run
InitialHeader(s) ==
  CASE s = "S1" -> <<H_Name, H_Email>>
    [] s = "S2" -> <<H_status, H_EMAIL>>
    [] s = "S3" -> <<>>
    [] s = "S4" -> <<H_Name>>

\* data rows of the first tab (rows may be shorter than the header row)
DataRows(s) ==
  CASE s = "S1" -> << <<"Ann", "ann@x.com">>, <<"Bo", "bo@x.com">>,
                      <<"Cy", "cy@x.com">> >>
    [] s = "S2" -> << <<"">>, <<"", "dee@x.com">> >>
    [] s = "S3" -> <<>>
    [] s = "S4" -> << <<"Ann">> >>

(* ------------------------------------------------------ campaign parameters *)
StartChoices == {0, 20}     \* startAt, epoch milliseconds
NowChoices   == {10}        \* Date.now() at the time of scheduling

\* subject and body templates, as sequences of characters
T_Welcome == <<"W","e","l","c","o","m","e"," ">> \o Pattern(H_Name)
T_Dear    == <<"D","e","a","r"," ">> \o Pattern(H_Name) \o <<":"," ">>
               \o Pattern(STR_Status)
T_Offer   == <<"O","f","f","e","r">>
T_Mail    == <<"T","o"," ">> \o Pattern(H_EMAIL)

CampaignParams ==
  { [sheetId |-> "S1", sheetTitle |-> Null, subject |-> T_Welcome,
     content |-> T_Dear,
     delaySeconds |-> 0, useSignature |-> FALSE, startAt |-> 20],
    [sheetId |-> "S2", sheetTitle |-> "Data", subject |-> T_Offer,
     content |-> T_Mail,
     delaySeconds |-> 1, useSignature |-> TRUE, startAt |-> 0],
    [sheetId |-> "S2", sheetTitle |-> Null, subject |-> T_Offer,
     content |-> T_Mail,
     delaySeconds |-> 1, useSignature |-> FALSE, startAt |-> 0],
    [sheetId |-> "S3", sheetTitle |-> Null, subject |-> T_Welcome,
     content |-> T_Offer,
     delaySeconds |-> 1, useSignature |-> FALSE, startAt |-> 0],
    [sheetId |-> "S4", sheetTitle |-> Null, subject |-> T_Welcome,
     content |-> T_Offer,
     delaySeconds |-> 1, useSignature |-> FALSE, startAt |-> 20] }

VARIABLES
  store,          \* electron-store: the keys set so far (googleToken, googleCreds)
  oauth2Client,   \* module-level handle: index into oauthClients, 0 = null
  gmailService,   \* 0 = null, else the OAuth client object it was built with
  sheetsService,  \* 0 = null, else the OAuth client object it was built with
  oauthClients,   \* the OAuth2 client objects created so far
  jobsMap,        \* global.__rtxScheduledJobs
  timers,         \* armed setTimeout handles of scheduled jobs, by job id
  nextId,         \* next fresh job id
  run,            \* per job: the executeCampaignRun invocation of its timer
  net,            \* provider requests in flight
  delays,         \* armed inter-send delay timers
  sheetHdr,       \* header row of each spreadsheet's first tab
  cells,          \* status cells written to the spreadsheets
  log,            \* logEvent entries
  unhandled,      \* rejections that escaped to process 'unhandledRejection'
  budget,         \* what the environment may still do in this behaviour:
                  \* faults = external calls it may still fail, requests =
                  \* requests it may still send to callback listeners
  auth,           \* per call of the public boundary (authenticateGoogle,
                  \* connectToSheets, sendTestEmail, updateSheetStatus): its state
  authNet,        \* external calls of those calls in flight
  cancelled       \* per job: whether cancelScheduled returned true for it and,
                  \* if so, whether its timer was still armed at that time

\* the scheduled jobs and the calls of the public boundary a behaviour has
\* room for
JobIds == DOMAIN run
AuthIds == DOMAIN auth

sessVars  == <<store, oauth2Client, gmailService, sheetsService, oauthClients>>
schedVars == <<jobsMap, timers, nextId>>
runVars   == <<run, net, delays, sheetHdr, cells>>
authVars  == <<auth, authNet>>
vars == <<store, oauth2Client, gmailService, sheetsService, oauthClients,
          jobsMap, timers, nextId, run, net, delays, sheetHdr, cells,
          log, unhandled, budget, cancelled, auth, authNet>>

(* ---------------------------------------------------------------- session *)
\* the module-level handles as one value, so that a handler's successive
\* assignments can be composed
Sess ==
  [oauth2Client |-> oauth2Client, gmailService |-> gmailService,
   sheetsService |-> sheetsService, oauthClients |-> oauthClients]

SetSess(s) ==
  /\ oauth2Client' = s.oauth2Client
  /\ gmailService' = s.gmailService
  /\ sheetsService' = s.sheetsService
  /\ oauthClients' = s.oauthClients

\* a URL, already split the way new URL() splits it; port 0 = no port given
Uri(scheme, host, port, path) ==
  [scheme |-> scheme, host |-> host, port |-> port, path |-> path]

buildOAuthClient(norm, redirectUriOverride) ==
  [client_id |-> norm.client_id,
   client_secret |-> norm.client_secret,
   redirect |-> IF redirectUriOverride # NullUri THEN redirectUriOverride
                ELSE IF norm.redirect_uri # NullUri THEN norm.redirect_uri
                ELSE Uri("http", "localhost", 0, ""),
   credentials |-> <<>>]   \* nothing set by setCredentials yet

\* store.get(key) is undefined (falsy) for a key that was never set
Has(st, key) == key \in DOMAIN st

\* ensureServices on session value s and store value st:
\* ok = FALSE when it throws 'Not authenticated'.
ensureServices(s, st) ==
  IF s.oauth2Client = 0 /\ ~(Has(st, "googleToken") /\ Has(st, "googleCreds"))
    THEN [ok |-> FALSE, error |-> "Not authenticated", s |-> s]
    ELSE
      LET s1 == IF s.oauth2Client = 0
                  THEN [s EXCEPT
                          !.oauthClients =
                             Append(@, [buildOAuthClient(st.googleCreds, NullUri)
                                          EXCEPT !.credentials = st.googleToken]),
                          !.oauth2Client = Len(s.oauthClients) + 1]
                  ELSE s
          s2 == IF s1.gmailService = 0
                  THEN [s1 EXCEPT !.gmailService = s1.oauth2Client] ELSE s1
          s3 == IF s2.sheetsService = 0
                  THEN [s2 EXCEPT !.sheetsService = s2.oauth2Client] ELSE s2
      IN [ok |-> TRUE, error |-> Null, s |-> s3]

(* ------------------------------------------------------- campaign helpers *)
\* row[k] for a 0-based k: undefined beyond the end of the row
Cell(row, k) == IF k >= 0 /\ k + 1 <= Len(row) THEN row[k + 1] ELSE Null

\* JavaScript falsiness of a cell value
Falsy(v) == v = Null \/ v = ""

\* findEmailColumnIndex without the lower-casing of line 673
findEmailColumnIndex_CaseSensitive(headers) ==
  IF headers = Null THEN -1
  ELSE LET hasEmail(h) == includes(h, STR_email)
       IN findIndex(headers, hasEmail)

findEmailColumnIndex(headers) ==
  IF headers = Null THEN -1
  ELSE LET hasEmail(h) == \E lower \in {toLowerCase(h)} : includes(lower, STR_email)
       IN findIndex(headers, hasEmail)

\* the findIndex of ensureStatusColumn
findStatusIndex(headers) ==
  LET isStatus(h) == \E trimmed \in {trim(h)} : toLowerCase(trimmed) = STR_status
  IN findIndex(headers, isStatus)

RECURSIVE colA1(_, _)
colA1(n, s) ==
  IF n >= 0 THEN colA1((n \div 26) - 1, <<Uppers[(n % 26) + 1]>> \o s) ELSE s

columnIndexToA1(n) == colA1(n, <<>>)

NoRun ==
  [pc |-> "none", calls |-> 0, i |-> 0, headers |-> <<>>, rows |-> <<>>,
   emailIdx |-> -1, signature |-> "", sendOk |-> {}, sendFail |-> {},
   statusDone |-> {}, delayDone |-> {}, hdrFail |-> {}, cellFail |-> {},
   signals |-> <<>>, ensure |-> <<>>, error |-> Null,
   params |-> Null, read |-> <<>>, rendered |-> <<>>]

\* a provider request in flight; the fields a kind does not use stay Null
Req(id, kind, row) ==
  [run |-> id, kind |-> kind, row |-> row, title |-> Null, col |-> Null,
   values |-> Null]

RemoveKey(f, k) == [x \in (DOMAIN f) \ {k} |-> f[x]]

\* Sendable without the `if (!to) continue` of line 704
Sendable_NoSkip(r, from) == from..(Len(r.rows) - 1)

\* 0-based indexes of the rows at or after `from` that have a recipient
Sendable(r, from) ==
  {j \in from..(Len(r.rows) - 1) : ~Falsy(Cell(r.rows[j + 1], r.emailIdx))}


(* --- the timer callback of scheduleOneTimeCampaign around the run ---     *)
\* RunThrew with the try/catch/finally of line 723-724 left out: the error
\* escapes the timer callback and the job stays registered
RunThrew_Unguarded(id, r, msg, netBase) ==
  /\ run' = [run EXCEPT ![id] = [r EXCEPT !.pc = "failed", !.error = msg]]
  /\ unhandled' = unhandled \cup {msg}
  /\ net' = netBase
  /\ UNCHANGED <<log, jobsMap>>

\* executeCampaignRun threw msg: catch logs it, finally deletes the job
RunThrew(id, r, msg, netBase) ==
  /\ run' = [run EXCEPT ![id] = [r EXCEPT !.pc = "failed", !.error = msg]]
  /\ log' = log \cup {[level |-> "error", message |-> "Scheduled run failed",
                       error |-> msg]}
  /\ jobsMap' = RemoveKey(jobsMap, id)
  /\ net' = netBase
  /\ unhandled' = unhandled

\* RunReturned without the finally of line 725: the job stays registered
RunReturned_NoDelete(id, r, netBase) ==
  /\ run' = [run EXCEPT ![id] = [r EXCEPT !.pc = "done"]]
  /\ jobsMap' = jobsMap
  /\ net' = netBase
  /\ UNCHANGED <<log, unhandled>>

\* RunReturned with the registry cleared instead of the one job deleted
RunReturned_ClearRegistry(id, r, netBase) ==
  /\ run' = [run EXCEPT ![id] = [r EXCEPT !.pc = "done"]]
  /\ jobsMap' = <<>>
  /\ net' = netBase
  /\ UNCHANGED <<log, unhandled>>

\* executeCampaignRun returned: finally deletes the job
RunReturned(id, r, netBase) ==
  /\ run' = [run EXCEPT ![id] = [r EXCEPT !.pc = "done"]]
  /\ jobsMap' = RemoveKey(jobsMap, id)
  /\ net' = netBase
  /\ UNCHANGED <<log, unhandled>>

\* a cell value of the sheet, which the run holds as one piece, as a text
Text(v) == IF v = "" THEN <<>> ELSE <<v>>

\* a data row as renderWithRow sees it: every cell the sheet returned is a
\* string, the cells beyond the end of the row are undefined
RenderRow(row) == [k \in 1..Len(row) |-> Some(Text(row[k]))]

\* line 705 is reached for row j: the row and the run's header list as it is
\* at that time
Rendering(r, j) == [row |-> j, headers |-> r.headers]

\* lines 705-706: the argument of buildRawEmail of run r for rendering m. The
\* body is rendered against the header list of that time; the subject is
\* passed on as it came in the parameters
Message(r, m) ==
  [row |-> m.row, to |-> Cell(r.rows[m.row + 1], r.emailIdx),
   subject |-> r.params.subject,
   text |-> renderWithRow(r.params.content, m.headers,
                          RenderRow(r.rows[m.row + 1]), Text(r.signature))]

\* the for loop of executeCampaignRun from row index `from` up to its next
\* await: rows without a recipient are skipped, the send of the next row is
\* issued, or the loop ends and the completion event is tracked
LoopFrom(id, r, from, netBase) ==
  IF Sendable(r, from) = {}
    THEN RunReturned(id, [r EXCEPT !.i = Len(r.rows),
                                   !.signals = Append(@, Len(r.rows))], netBase)
    ELSE LET j == Min(Sendable(r, from))
         IN /\ run' = [run EXCEPT ![id] =
                         [r EXCEPT !.pc = "awaitSend", !.i = j,
                                   !.rendered = Append(@, Rendering(r, j))]]
            /\ net' = netBase \cup {Req(id, "send", j)}
            /\ UNCHANGED <<jobsMap, log, unhandled>>

(* -------------------------------------------------------------- scheduler *)
scheduleOneTimeCampaign(params, now) ==
  /\ nextId \in JobIds
  /\ LET id == nextId
         startAt == params.startAt
         ms == Max(0, startAt - now)
     IN /\ timers' = timers @@ (id :> [ms |-> ms, params |-> params,
                                       now |-> now])
        /\ jobsMap' = jobsMap @@ (id :> [id |-> id, type |-> "one-time",
                                         startAt |-> startAt, params |-> params])
  /\ nextId' = nextId + 1
  /\ UNCHANGED <<sessVars, runVars, log, unhandled, budget, cancelled, auth, authNet>>

listScheduledJobs ==
  {[id |-> jobsMap[k].id, type |-> jobsMap[k].type, startAt |-> jobsMap[k].startAt,
    sheetId |-> jobsMap[k].params.sheetId, subject |-> jobsMap[k].params.subject]
     : k \in DOMAIN jobsMap}

\* the value cancelScheduledJob(id) returns in the current state
cancelReturn(id) == id \in DOMAIN jobsMap

\* cancelScheduledJob without the clearTimeout of line 740
cancelScheduledJob_NoClear(id) ==
  IF ~cancelReturn(id)
    THEN UNCHANGED <<jobsMap, timers, cancelled>>
    ELSE /\ timers' = timers
         /\ jobsMap' = RemoveKey(jobsMap, id)
         /\ cancelled' = [cancelled EXCEPT ![id] =
                            IF id \in DOMAIN timers THEN "pending" ELSE "fired"]

cancelScheduledJob(id) ==
  IF ~cancelReturn(id)
    THEN UNCHANGED <<jobsMap, timers, cancelled>>
    ELSE /\ timers' = RemoveKey(timers, id)
         /\ jobsMap' = RemoveKey(jobsMap, id)
         /\ cancelled' = [cancelled EXCEPT ![id] =
                            IF id \in DOMAIN timers THEN "pending" ELSE "fired"]

CancelScheduled(id) ==
  /\ cancelScheduledJob(id)
  /\ UNCHANGED <<sessVars, nextId, runVars, log, unhandled, budget, authVars>>

(* ------------------------------------------------------- campaign runner *)
\* a provider call answers: successfully, or with an error
Provider(ok) ==
  /\ ok \/ budget.faults > 0
  /\ budget' = IF ok THEN budget ELSE [budget EXCEPT !.faults = @ - 1]

\* the scheduled timer fires: the callback calls executeCampaignRun, which runs
\* ensureServices and issues the read of the sheet
TimerFires(id) ==
  /\ id \in DOMAIN timers
  /\ timers' = RemoveKey(timers, id)
  /\ LET r == [run[id] EXCEPT !.calls = @ + 1, !.params = timers[id].params]
         e == ensureServices(Sess, store)
     IN IF ~e.ok
          THEN /\ RunThrew(id, r, e.error, net)
               /\ UNCHANGED <<oauth2Client, gmailService, sheetsService,
                              oauthClients>>
          ELSE /\ SetSess(e.s)
               /\ run' = [run EXCEPT ![id] = [r EXCEPT !.pc = "awaitGet"]]
               /\ net' = net \cup {Req(id, "get", -1)}
               /\ UNCHANGED <<jobsMap, log, unhandled>>
  /\ UNCHANGED <<store, nextId, delays, sheetHdr, cells, budget, cancelled, authVars>>

SigChoices == {"", "Regards"}

\* spreadsheets.values.get answers: lines 693-700 and the loop up to its await
GetResponds(id, ok) ==
  /\ Provider(ok)
  /\ run[id].pc = "awaitGet"
  /\ Req(id, "get", -1) \in net
  /\ LET r == run[id]
         p == r.params
         netBase == net \ {Req(id, "get", -1)}
         found == p.sheetTitle = Null \/ p.sheetTitle = FirstTab(p.sheetId)
         values == IF sheetHdr[p.sheetId] = <<>> THEN <<>>
                   ELSE <<sheetHdr[p.sheetId]>> \o DataRows(p.sheetId)
         headers == values[1]
     IN IF ~(ok /\ found) THEN RunThrew(id, r, "provider error", netBase)
        ELSE IF Len(values) = 0
          THEN RunThrew(id, r, "No data found in sheet", netBase)
        ELSE \E r1 \in {[r EXCEPT !.headers = headers, !.rows = Tail(values),
                                  !.emailIdx = findEmailColumnIndex(headers),
                                  !.read = headers]} :
          IF r1.emailIdx < 0
            THEN RunThrew(id, r1, "No Email column found", netBase)
          ELSE IF p.useSignature
            THEN /\ run' = [run EXCEPT ![id] = [r1 EXCEPT !.pc = "awaitSig"]]
                 /\ net' = netBase \cup {Req(id, "sendAs", -1)}
                 /\ UNCHANGED <<jobsMap, log, unhandled>>
          ELSE LoopFrom(id, r1, 0, netBase)
  /\ UNCHANGED <<cancelled, authVars>>
  /\ UNCHANGED <<sessVars, timers, nextId, delays, sheetHdr, cells>>

\* getPrimarySignature's sendAs.list answers
SignatureResponds(id, ok, sig) ==
  /\ Provider(ok)
  /\ run[id].pc = "awaitSig"
  /\ Req(id, "sendAs", -1) \in net
  /\ LET r == run[id]
         netBase == net \ {Req(id, "sendAs", -1)}
     IN IF ~ok THEN RunThrew(id, r, "provider error", netBase)
        ELSE LoopFrom(id, [r EXCEPT !.signature = sig], 0, netBase)
  /\ UNCHANGED <<cancelled, authVars>>
  /\ UNCHANGED <<sessVars, timers, nextId, delays, sheetHdr, cells>>

\* what one call of ensureStatusColumn did: the index it returned and whether
\* it pushed "Status" onto the header list and wrote the header row
Returns(idx, pushed) == [idx |-> idx, pushed |-> pushed]

\* rowA1 with the header row forgotten
rowA1_NoHeader(rowIndexZeroBased) == rowIndexZeroBased + 1

\* line 450: +1 for the header row, +1 because sheet rows are 1-indexed
rowA1(rowIndexZeroBased) == rowIndexZeroBased + 2

\* the single-cell update of updateSheetStatus (lines 449-458) is issued
IssueCellWrite(id, r, title, col, netBase) ==
  /\ run' = [run EXCEPT ![id] = [r EXCEPT !.pc = "awaitCell"]]
  /\ net' = netBase \cup
       {[Req(id, "cell", r.i) EXCEPT !.title = title,
                                     !.col = columnIndexToA1(col),
                                     !.values = "SENT"]}

\* messages.send answers.  A rejection is thrown out of executeCampaignRun
\* (line 707 is outside the try of line 708); otherwise updateSheetStatus
\* starts: ensureStatusColumn either finds the column or pushes "Status"
\* and writes the header row.
SendResponds(id, ok) ==
  /\ Provider(ok)
  /\ run[id].pc = "awaitSend"
  /\ Req(id, "send", run[id].i) \in net
  /\ LET r == run[id]
         p == r.params
         netBase == net \ {Req(id, "send", r.i)}
         title == IF p.sheetTitle = Null THEN "Sheet1" ELSE p.sheetTitle
         r1 == [r EXCEPT !.sendOk = @ \cup {r.i}]
         pushed == Append(r.headers, STR_Status)
     IN IF ~ok
          THEN RunThrew(id, [r EXCEPT !.sendFail = @ \cup {r.i}],
                        "provider error", netBase)
        ELSE \E idx \in {findStatusIndex(r.headers)} :
          IF idx = -1
            THEN /\ run' = [run EXCEPT ![id] =
                              [r1 EXCEPT !.pc = "awaitHdr", !.headers = pushed]]
                 /\ net' = netBase \cup
                      {[Req(id, "header", r.i) EXCEPT
                          !.title = title,
                          !.col = columnIndexToA1(Len(pushed) - 1),
                          !.values = pushed]}
                 /\ UNCHANGED <<jobsMap, log, unhandled>>
          ELSE /\ IssueCellWrite(id, [r1 EXCEPT !.ensure = Append(@, Returns(idx, FALSE))],
                               title, idx, netBase)
               /\ UNCHANGED <<jobsMap, log, unhandled>>
  /\ UNCHANGED <<cancelled, authVars>>
  /\ UNCHANGED <<sessVars, timers, nextId, delays, sheetHdr, cells>>

\* the header-row update of ensureStatusColumn answers (lines 424-437)
HeaderWriteResponds(id, ok) ==
  /\ Provider(ok)
  /\ run[id].pc = "awaitHdr"
  /\ \E q \in net :
       /\ q.run = id /\ q.kind = "header"
       /\ LET r == run[id]
              sid == r.params.sheetId
              done == ok /\ q.title = FirstTab(sid)
          IN /\ IF done
                  THEN /\ sheetHdr' = [sheetHdr EXCEPT ![sid] = q.values]
                       /\ log' = log
                  ELSE /\ sheetHdr' = sheetHdr
                       /\ log' = log \cup
                            {[level |-> "error",
                              message |-> "Failed to ensure Status column",
                              error |-> "provider error"]}
             /\ IssueCellWrite(id,
                               IF done
                                 THEN [r EXCEPT !.ensure =
                                         Append(@, Returns(Len(r.headers) - 1, TRUE))]
                                 ELSE [r EXCEPT !.hdrFail = @ \cup {r.i},
                                                !.ensure = Append(@, Returns(-1, TRUE))],
                               q.title,
                               IF done THEN Len(r.headers) - 1 ELSE -1,
                               net \ {q})
  /\ UNCHANGED <<cancelled, authVars>>
  /\ UNCHANGED <<sessVars, schedVars, delays, cells, unhandled>>

\* line 711: Math.floor(Math.random() * 2000) lies in 0..1999
JitterChoices == {0, 1999}

\* line 712: the timeout in milliseconds; `delaySeconds || 5` takes 5 for 0
delayMs(delaySeconds, jitter) ==
  (IF delaySeconds = 0 THEN 5 ELSE delaySeconds) * 1000
    + jitter

\* ArmDelay without the await of line 712: the timer is armed and the loop
\* goes on to the next row at once
ArmDelay_NoAwait(id, r, netBase) ==
  /\ \E jitter \in JitterChoices :
       delays' = delays \cup {[run |-> id, row |-> r.i,
                               ms |-> delayMs(r.params.delaySeconds, jitter)]}
  /\ LoopFrom(id, r, r.i + 1, netBase)

\* lines 711-712: the run waits for delaySeconds plus jitter
ArmDelay(id, r, netBase) ==
  /\ run' = [run EXCEPT ![id] = [r EXCEPT !.pc = "awaitDelay"]]
  /\ \E jitter \in JitterChoices :
       delays' = delays \cup {[run |-> id, row |-> r.i,
                               ms |-> delayMs(r.params.delaySeconds, jitter)]}
  /\ net' = netBase
  /\ UNCHANGED <<jobsMap, unhandled>>

\* the cell update of updateSheetStatus answers (lines 452-463), then the
\* delay of the row starts
CellWriteResponds(id, ok) ==
  /\ Provider(ok)
  /\ run[id].pc = "awaitCell"
  /\ \E q \in net :
       /\ q.run = id /\ q.kind = "cell"
       /\ LET r == run[id]
              sid == r.params.sheetId
              done == ok /\ q.title = FirstTab(sid)
          IN /\ IF done
                  THEN /\ cells' = cells \cup
                            {[sheetId |-> sid, title |-> q.title, col |-> q.col,
                              row |-> rowA1(q.row), text |-> q.values]}
                       /\ log' = log
                  ELSE /\ cells' = cells
                       /\ log' = log \cup
                            {[level |-> "error",
                              message |-> "Sheets status update failed",
                              error |-> "provider error"]}
             /\ ArmDelay(id, [r EXCEPT !.statusDone = @ \cup {r.i},
                                       !.cellFail = IF done THEN @
                                                    ELSE @ \cup {r.i}],
                         net \ {q})
  /\ UNCHANGED <<cancelled, authVars>>
  /\ UNCHANGED <<sessVars, timers, nextId, sheetHdr>>

\* DelayElapses with the loop index reset: the loop starts over at row 0
DelayElapses_Restart(id) ==
  /\ run[id].pc = "awaitDelay"
  /\ \E d \in delays : /\ d.run = id /\ d.row = run[id].i
                        /\ delays' = delays \ {d}
  /\ LET r == [run[id] EXCEPT !.delayDone = @ \cup {run[id].i}]
     IN LoopFrom(id, r, 0, net)
  /\ UNCHANGED <<sessVars, timers, nextId, sheetHdr, cells, budget, cancelled, authVars>>

\* the delay timer of the current row fires; the loop goes on
DelayElapses(id) ==
  /\ run[id].pc = "awaitDelay"
  /\ \E d \in delays : /\ d.run = id /\ d.row = run[id].i
                        /\ delays' = delays \ {d}
  /\ LET r == [run[id] EXCEPT !.delayDone = @ \cup {run[id].i}]
     IN LoopFrom(id, r, r.i + 1, net)
  /\ UNCHANGED <<sessVars, timers, nextId, sheetHdr, cells, budget, cancelled, authVars>>

(* --------------------------------------------------------- authentication *)
\* !x for a field of a credential document
Truthy(rec, key) == Has(rec, key) /\ rec[key] # ""

\* u.startsWith('http://localhost')
startsWithLocalhost(u) == u.scheme = "http" /\ u.host = "localhost"

\* the redirect_uris of a credential object, an empty list when it has none
RedirectUris(c) == IF Has(c, "redirect_uris") THEN c.redirect_uris ELSE <<>>

IsNullDoc(raw) == Has(raw, "isNull")

\* normalizeCredentials with `&&` for the `||` of lines 205 and 214: only a
\* document missing both fields is refused
normalizeCredentials_EitherField(raw) ==
  LET creds == IF Has(raw, "web") THEN raw.web
               ELSE IF Has(raw, "installed") THEN raw.installed ELSE raw
      field(key) == IF Has(creds, key) THEN creds[key] ELSE Null
  IN IF IsNullDoc(creds)
       THEN [ok |-> FALSE, error |-> "Invalid credentials file format"]
     ELSE IF ~Truthy(creds, "client_id") /\ ~Truthy(creds, "client_secret")
       THEN [ok |-> FALSE, error |-> "Missing client_id/client_secret"]
     ELSE [ok |-> TRUE,
           norm |-> [client_id |-> field("client_id"),
                     client_secret |-> field("client_secret"),
                     redirect_uri |-> NullUri, fixed |-> FALSE]]

normalizeCredentials(raw) ==
  IF Has(raw, "web")
    THEN LET web == raw.web
             uris == RedirectUris(web)
             k == findIndex(uris, startsWithLocalhost)
         IN IF ~Truthy(web, "client_id") \/ ~Truthy(web, "client_secret")
              THEN [ok |-> FALSE, error |-> "Missing client_id/client_secret"]
            ELSE IF k = -1
              THEN [ok |-> TRUE,
                    norm |-> [client_id |-> web.client_id,
                              client_secret |-> web.client_secret,
                              redirect_uri |-> NullUri, fixed |-> FALSE]]
            ELSE [ok |-> TRUE,
                  norm |-> [client_id |-> web.client_id,
                            client_secret |-> web.client_secret,
                            redirect_uri |-> uris[k + 1], fixed |-> TRUE]]
    ELSE LET creds == IF Has(raw, "installed") THEN raw.installed ELSE raw
             hasLocalhost ==
               \E k \in 1..Len(RedirectUris(creds)) :
                  startsWithLocalhost(RedirectUris(creds)[k])
         IN IF IsNullDoc(creds)
              THEN [ok |-> FALSE, error |-> "Invalid credentials file format"]
            ELSE IF ~Truthy(creds, "client_id") \/ ~Truthy(creds, "client_secret")
              THEN [ok |-> FALSE,
                    error |-> "Missing client_id/client_secret in credentials"]
            ELSE [ok |-> TRUE,
                  norm |-> [client_id |-> creds.client_id,
                            client_secret |-> creds.client_secret,
                            redirect_uri |-> NullUri, fixed |-> FALSE,
                            host |-> IF hasLocalhost THEN "localhost"
                                     ELSE "127.0.0.1"]]

\* the credential documents handed to authenticate
CredentialDocs ==
  { [web |-> [client_id |-> "cidW", client_secret |-> "secW",
              redirect_uris |-> <<Uri("https", "app.example.com", 0, "/cb"),
                                  Uri("http", "localhost", 3000, "/oauth")>>]],
    [installed |-> [client_id |-> "cidI", client_secret |-> "secI"]],
    [client_id |-> "cidF", client_secret |-> ""],
    [isNull |-> TRUE] }

ProfileEmail == "me@x.com"     \* the account's address, as getProfile reports it
EphemeralPort == 49152         \* a port the OS assigns for port 0
TimeoutError == "Authentication timed out. Please try again."

NoAuth ==
  [op |-> "none", arg |-> <<>>, work |-> <<>>, pc |-> "none", norm |-> <<>>, hadToken |-> FALSE, reuse |-> "none",
   settled |-> FALSE,
   promise |-> "none", servers |-> <<>>, timer |-> FALSE, opens |-> 0,
   requests |-> 0, codes |-> 0, responses |-> <<>>, tokens |-> <<>>, result |-> <<>>,
   before |-> <<>>, client |-> 0, exchanges |-> 0]

\* an external call of flow a in flight: client is the OAuth client object it
\* goes through, n tells the requests of one flow apart
AReq(a, kind, client, n) ==
  [call |-> a, kind |-> kind, client |-> client, n |-> n, tokens |-> <<>>]

\* the token set the provider issues for the n-th code of flow a
Token(a, n) == [token |-> "issued", flow |-> a, n |-> n]

StoreSet(st, key, value) ==
  [k \in (DOMAIN st) \cup {key} |-> IF k = key THEN value ELSE st[k]]

Server(host, port, path, handler) ==
  [host |-> host, port |-> port, path |-> path, handler |-> handler,
   state |-> "binding", closes |-> 0]

\* server.close() on the flow's current server
CloseServer(rec) ==
  IF rec.servers = <<>> THEN rec
  ELSE [rec EXCEPT !.servers[Len(rec.servers)] =
          [@ EXCEPT !.closes = @ + 1,
                    !.state = IF @ \in {"binding", "listening"} THEN "closed"
                              ELSE @]]

\* ReturnFailure without the catch block: the error leaves authenticateGoogle
ReturnFailure_Rethrow(a, rec, msg) ==
  /\ auth' = [auth EXCEPT ![a] = [rec EXCEPT !.pc = "threw",
                                            !.result = [thrown |-> msg]]]
  /\ log' = log

\* the catch block of authenticateGoogle (lines 331-336)
ReturnFailure(a, rec, msg) ==
  /\ auth' = [auth EXCEPT ![a] =
                [rec EXCEPT !.pc = "returned",
                            !.result = [success |-> FALSE, error |-> msg]]]
  /\ log' = log \cup {[level |-> "error", message |-> "Authentication error",
                       error |-> msg]}

ReturnSuccess(a, rec) ==
  /\ auth' = [auth EXCEPT ![a] =
                [rec EXCEPT !.pc = "returned",
                            !.result = [success |-> TRUE,
                                        userEmail |-> ProfileEmail]]]
  /\ log' = log

\* reject(err) of the token promise: the first settlement wins; the await of
\* line 255 then throws into the catch block
Reject(a, rec, msg) ==
  IF rec.promise = "pending"
    THEN ReturnFailure(a, [rec EXCEPT !.promise = "rejected"], msg)
    ELSE /\ auth' = [auth EXCEPT ![a] = rec]
         /\ log' = log

\* lines 255-320 up to the first wait: the listener is created and asked to
\* bind, the 5 minute timer is armed
StartInteractive(a, rec) ==
  LET norm == rec.norm
      fixed == norm.fixed /\ norm.redirect_uri # NullUri
      host == IF fixed
                THEN (IF norm.redirect_uri.host # "" THEN norm.redirect_uri.host
                      ELSE "localhost")
                ELSE (IF Has(norm, "host") THEN norm.host ELSE "localhost")
      port == IF fixed THEN norm.redirect_uri.port ELSE 0
      pathName == IF fixed /\ norm.redirect_uri.path # ""
                    THEN norm.redirect_uri.path ELSE "/"
  IN /\ auth' = [auth EXCEPT ![a] =
                   [rec EXCEPT !.pc = "pending", !.promise = "pending",
                               !.settled = FALSE, !.timer = TRUE,
                               !.servers = <<Server(host, port, pathName, "real")>>]]
     /\ log' = log

\* lines 244-247: the stored token is put on a new OAuth client, the
\* provider clients are ensured and the profile is asked for
ReuseToken(a, rec, st) ==
  LET client == [buildOAuthClient(rec.norm, NullUri)
                   EXCEPT !.credentials = st.googleToken]
      s0 == [Sess EXCEPT !.oauthClients = Append(@, client),
                         !.oauth2Client = Len(oauthClients) + 1]
      e == ensureServices(s0, st)
  IN /\ SetSess(e.s)
     /\ authNet' = authNet \cup {AReq(a, "profileFast", e.s.gmailService, 0)}
     /\ auth' = [auth EXCEPT ![a] = [rec EXCEPT !.pc = "awaitProfileFast",
                                                !.client = Len(oauthClients) + 1]]
     /\ log' = log

\* authenticate is called with a credential document (lines 237-253)
authenticateGoogle(a, raw) ==
  /\ auth[a].pc = "none"
  /\ \A b \in AuthIds : b < a => auth[b].pc # "none"
  /\ LET n == normalizeCredentials(raw)
         st == StoreSet(store, "googleCreds", n.norm)
         rec == [auth[a] EXCEPT !.op = "authenticateGoogle",
                                !.norm = n.norm,
                                !.hadToken = Has(store, "googleToken"),
                                !.before = store]
     IN IF ~n.ok
          THEN /\ ReturnFailure(a, [auth[a] EXCEPT
                                      !.op = "authenticateGoogle",
                                      !.hadToken = Has(store, "googleToken"),
                                      !.before = store],
                                n.error)
               /\ UNCHANGED <<sessVars, authNet>>
        ELSE /\ store' = st
             /\ IF Has(st, "googleToken")
                  THEN ReuseToken(a, rec, st)
                  ELSE /\ StartInteractive(a, rec)
                       /\ UNCHANGED <<oauth2Client, gmailService, sheetsService,
                                      oauthClients, authNet>>
  /\ UNCHANGED <<schedVars, runVars, unhandled, budget, cancelled>>

\* FastPathSucceeds without the return of line 250: the code falls through
\* to the interactive flow
FastPathSucceeds_NoReturn(a, rec) == StartInteractive(a, rec)

\* lines 248-250: the profile of the reused token arrived
FastPathSucceeds(a, rec) == ReturnSuccess(a, rec)

\* getProfile of the fast path answers
ProfileFastResponds(a, ok) ==
  /\ auth[a].pc = "awaitProfileFast"
  /\ Provider(ok)
  /\ \E q \in authNet :
       /\ q.call = a /\ q.kind = "profileFast"
       /\ authNet' = authNet \ {q}
       /\ IF ok
            THEN FastPathSucceeds(a, [auth[a] EXCEPT !.reuse = "ok"])
            ELSE ReturnFailure(a, [auth[a] EXCEPT !.reuse = "failed"],
                               "provider error")
  /\ UNCHANGED <<sessVars, schedVars, runVars, unhandled, cancelled>>

\* server.listen of the flow's current server succeeds (the callback of line
\* 279) or fails (the 'error' handler of line 288)
ListenResponds(a, ok) ==
  /\ auth[a].servers # <<>>
  /\ auth[a].servers[Len(auth[a].servers)].state = "binding"
  /\ Provider(ok)
  /\ LET rec == auth[a]
         k == Len(rec.servers)
         srv == rec.servers[k]
         actual == IF srv.port = 0 THEN EphemeralPort ELSE srv.port
         client == buildOAuthClient(rec.norm,
                                    Uri("http", srv.host, actual, srv.path))
         altHost == IF srv.host = "localhost" THEN "127.0.0.1" ELSE "localhost"
         failed == [rec EXCEPT !.servers[k] =
                      [@ EXCEPT !.state = "failed", !.closes = @ + 1]]
     IN IF ok
          THEN /\ oauthClients' = Append(oauthClients, client)
               /\ oauth2Client' = Len(oauthClients) + 1
               /\ auth' = [auth EXCEPT ![a] =
                             [rec EXCEPT !.servers[k] =
                                           [@ EXCEPT !.state = "listening",
                                                     !.port = actual],
                                         !.opens = @ + 1,
                                         !.client = Len(oauthClients) + 1]]
               /\ authNet' = authNet \cup
                             {AReq(a, "open", Len(oauthClients) + 1, rec.opens)}
          ELSE /\ auth' = [auth EXCEPT ![a] =
                             IF rec.settled THEN failed
                             ELSE [failed EXCEPT !.servers =
                                     Append(@, Server(altHost, 0, srv.path,
                                                      "noop"))]]
               /\ UNCHANGED <<oauthClients, oauth2Client, authNet>>
  /\ UNCHANGED <<store, gmailService, sheetsService, schedVars, runVars, log,
                 unhandled, cancelled>>

\* shell.openExternal settles (lines 283-287)
OpenResponds(a, ok) ==
  /\ Provider(ok)
  /\ \E q \in authNet :
       /\ q.call = a /\ q.kind = "open"
       /\ authNet' = authNet \ {q}
       /\ IF ok
            THEN UNCHANGED <<auth, log>>
            ELSE Reject(a, CloseServer(auth[a]), "browser error")
  /\ UNCHANGED <<sessVars, schedVars, runVars, unhandled, cancelled>>

\* the browser (or anything else) sends a request to the flow's listener: the
\* request handler of lines 260-276 up to its await, or the empty handler of
\* the fallback server of line 293
CallbackArrives(a, hasCode) ==
  /\ auth[a].servers # <<>>
  /\ auth[a].servers[Len(auth[a].servers)].state = "listening"
  /\ budget.requests > 0
  /\ budget' = [budget EXCEPT !.requests = @ - 1]
  /\ LET rec == [auth[a] EXCEPT !.requests = @ + 1,
                                !.codes = IF hasCode THEN @ + 1 ELSE @]
         srv == rec.servers[Len(rec.servers)]
     IN IF srv.handler = "noop"
          THEN /\ auth' = [auth EXCEPT ![a] = rec]
               /\ authNet' = authNet
        ELSE IF ~hasCode
          THEN /\ auth' = [auth EXCEPT ![a] =
                             [rec EXCEPT !.responses = Append(@, 400)]]
               /\ authNet' = authNet
        ELSE /\ auth' = [auth EXCEPT ![a] = [rec EXCEPT !.exchanges = @ + 1]]
             /\ authNet' = authNet \cup
                           {AReq(a, "token", oauth2Client, rec.requests)}
  /\ UNCHANGED <<sessVars, schedVars, runVars, log, unhandled, cancelled>>

\* oauth2Client.getToken(code) settles (lines 267-275)
TokenResponds(a, ok) ==
  /\ Provider(ok)
  /\ \E q \in authNet :
       /\ q.call = a /\ q.kind = "token"
       /\ LET rec == auth[a]
              tokens == Token(a, q.n)
          IN IF ok
               THEN /\ oauthClients' =
                         [oauthClients EXCEPT ![oauth2Client].credentials = tokens]
                    /\ auth' = [auth EXCEPT ![a] =
                                  CloseServer([rec EXCEPT
                                                 !.responses = Append(@, 200),
                                                 !.settled = TRUE])]
                    /\ authNet' = (authNet \ {q}) \cup
                         {[AReq(a, "closed", q.client, q.n)
                             EXCEPT !.tokens = tokens]}
                    /\ log' = log
             ELSE /\ authNet' = authNet \ {q}
                  /\ oauthClients' = oauthClients
                  /\ IF ~rec.settled
                       THEN Reject(a, CloseServer([rec EXCEPT !.settled = TRUE]),
                                   "exchange error")
                       ELSE UNCHANGED <<auth, log>>
  /\ UNCHANGED <<store, oauth2Client, gmailService, sheetsService, schedVars,
                 runVars, unhandled, cancelled>>

\* the callback of server.close (line 272) runs resolve(tokens); when that
\* settles the promise, lines 322-324 follow
CloseCallback(a) ==
  /\ \E q \in authNet :
       /\ q.call = a /\ q.kind = "closed"
       /\ IF auth[a].promise = "pending"
            THEN LET st == StoreSet(store, "googleToken", q.tokens)
                     e == ensureServices(Sess, st)
                 IN /\ store' = st
                    /\ SetSess(e.s)
                    /\ auth' = [auth EXCEPT ![a] =
                                  [@ EXCEPT !.promise = "resolved",
                                            !.pc = "awaitProfile",
                                            !.tokens = q.tokens]]
                    /\ authNet' = (authNet \ {q}) \cup
                                  {AReq(a, "profile", e.s.gmailService, 0)}
            ELSE /\ authNet' = authNet \ {q}
                 /\ UNCHANGED <<sessVars, auth>>
  /\ UNCHANGED <<schedVars, runVars, log, unhandled, budget, cancelled>>

\* getProfile of line 324 answers
ProfileResponds(a, ok) ==
  /\ auth[a].pc = "awaitProfile"
  /\ Provider(ok)
  /\ \E q \in authNet :
       /\ q.call = a /\ q.kind = "profile"
       /\ authNet' = authNet \ {q}
       /\ IF ok THEN ReturnSuccess(a, auth[a])
                ELSE ReturnFailure(a, auth[a], "provider error")
  /\ UNCHANGED <<sessVars, schedVars, runVars, unhandled, cancelled>>

\* AuthTimeout without the reject of line 317: the timer only marks the flow
\* settled and closes the listener
AuthTimeout_NoReject(a) ==
  /\ auth[a].timer
  /\ LET rec == [auth[a] EXCEPT !.timer = FALSE]
     IN /\ auth' = [auth EXCEPT ![a] =
                      IF ~rec.settled
                        THEN CloseServer([rec EXCEPT !.settled = TRUE])
                        ELSE rec]
        /\ log' = log
  /\ UNCHANGED <<sessVars, schedVars, runVars, unhandled, budget, cancelled,
                 authNet>>

\* the timer of lines 313-319 fires
AuthTimeout(a) ==
  /\ auth[a].timer
  /\ LET rec == [auth[a] EXCEPT !.timer = FALSE]
     IN IF ~rec.settled
          THEN Reject(a, CloseServer([rec EXCEPT !.settled = TRUE]), TimeoutError)
          ELSE /\ auth' = [auth EXCEPT ![a] = rec]
               /\ log' = log
  /\ UNCHANGED <<sessVars, schedVars, runVars, unhandled, budget, cancelled,
                 authNet>>

\* initializeGmailService / initializeSheetsService: ensureServices is called
\* from the renderer; its failure is returned, not thrown
InitializeService ==
  /\ SetSess(ensureServices(Sess, store).s)
  /\ UNCHANGED <<store, schedVars, runVars, log, unhandled, budget, cancelled,
                 authVars>>

\* the keys the renderer may name in storeSet / storeDelete, and a value it
\* may hand over for each
StoreKeys == {"googleToken", "googleCreds", "theme"}

RendererValue(key) ==
  IF key = "googleToken" THEN [token |-> "renderer", flow |-> 0]
  ELSE IF key = "googleCreds"
    THEN [client_id |-> "cidR", client_secret |-> "secR",
          redirect_uri |-> NullUri, fixed |-> FALSE]
  ELSE "dark"

\* ipcMain.handle('storeSet'): store.set(key, value)
StoreSetHandler(key) ==
  /\ store' = StoreSet(store, key, RendererValue(key))
  /\ UNCHANGED <<oauth2Client, gmailService, sheetsService, oauthClients,
                 schedVars, runVars, log, unhandled, budget, cancelled, authVars>>

\* ipcMain.handle('storeDelete'): store.delete(key)
StoreDeleteHandler(key) ==
  /\ store' = [k \in (DOMAIN store) \ {key} |-> store[k]]
  /\ UNCHANGED <<oauth2Client, gmailService, sheetsService, oauthClients,
                 schedVars, runVars, log, unhandled, budget, cancelled, authVars>>

(* ------------------------------------------ other calls of the boundary *)
\* a call of the public boundary takes the next free call slot
FreeSlot(a) ==
  /\ auth[a].pc = "none"
  /\ \A b \in AuthIds : b < a => auth[b].pc # "none"

\* the call returned `result` to its caller
Returned(rec, result) == [rec EXCEPT !.pc = "returned", !.result = result]

\* the call rejected: the error went past the function to the IPC caller
Threw(rec, msg) == [rec EXCEPT !.pc = "threw", !.result = [thrown |-> msg]]

\* what the provider returns for a read of a spreadsheet's first tab
SheetValues(sid) ==
  IF sheetHdr[sid] = <<>> THEN <<>> ELSE <<sheetHdr[sid]>> \o DataRows(sid)

\* the arguments handed to connectToSheets: a bare sheet id, or an object
ConnectArgs ==
  { [isObject |-> FALSE, sheetId |-> "S1"],
    [isObject |-> TRUE, sheetId |-> "S3", sheetTitle |-> ""],
    [isObject |-> TRUE, sheetId |-> "S2", sheetTitle |-> "Nope"] }

\* lines 360-365: sheetTitle = arg.sheetTitle || null for an object
connectTitle(arg) ==
  IF arg.isObject /\ arg.sheetTitle # "" THEN arg.sheetTitle ELSE Null

\* connectToSheets up to its read of the sheet (lines 357-367)
connectToSheets(a, arg) ==
  /\ FreeSlot(a)
  /\ LET e == ensureServices(Sess, store)
         rec == [auth[a] EXCEPT !.op = "connectToSheets", !.arg = arg]
     IN /\ SetSess(e.s)
        /\ IF ~e.ok
             THEN /\ auth' = [auth EXCEPT ![a] =
                                Returned(rec, [success |-> FALSE,
                                               error |-> e.error])]
                  /\ authNet' = authNet
             ELSE /\ auth' = [auth EXCEPT ![a] = [rec EXCEPT !.pc = "awaitValues"]]
                  /\ authNet' = authNet \cup
                                {AReq(a, "values", e.s.sheetsService, 0)}
  /\ UNCHANGED <<store, schedVars, runVars, log, unhandled, budget, cancelled>>

\* spreadsheets.values.get of connectToSheets answers (lines 367-376)
ValuesResponds(a, ok) ==
  /\ auth[a].pc = "awaitValues"
  /\ Provider(ok)
  /\ \E q \in authNet :
       /\ q.call = a /\ q.kind = "values"
       /\ authNet' = authNet \ {q}
       /\ LET rec == auth[a]
              sid == rec.arg.sheetId
              title == connectTitle(rec.arg)
              found == title = Null \/ title = FirstTab(sid)
              values == SheetValues(sid)
          IN auth' = [auth EXCEPT ![a] =
               IF ~(ok /\ found)
                 THEN Returned(rec, [success |-> FALSE, error |-> "provider error"])
               ELSE IF Len(values) = 0
                 THEN Returned(rec, [success |-> FALSE,
                                     error |-> "No data found in sheet"])
               ELSE Returned(rec, [success |-> TRUE,
                                   data |-> [headers |-> values[1],
                                             rows |-> Tail(values)]])]
  /\ UNCHANGED <<sessVars, schedVars, runVars, log, unhandled, cancelled>>

\* the emailData handed to sendTestEmail
EmailDocs == { [to |-> "ann@x.com"], [isNull |-> TRUE] }

\* the catch block of sendTestEmail (lines 640-645)
SendTestFailed(a, rec, msg) ==
  /\ auth' = [auth EXCEPT ![a] =
                Returned(rec, [success |-> FALSE, error |-> msg])]
  /\ log' = log \cup {[level |-> "error", message |-> "Email sending error",
                       error |-> msg]}

\* sendTestEmail up to its send (lines 625-636)
sendTestEmail(a, emailData) ==
  /\ FreeSlot(a)
  /\ LET e == ensureServices(Sess, store)
         rec == [auth[a] EXCEPT !.op = "sendTestEmail", !.arg = emailData]
     IN /\ SetSess(e.s)
        /\ IF ~e.ok
             THEN SendTestFailed(a, rec, e.error) /\ authNet' = authNet
           ELSE IF IsNullDoc(emailData)
             THEN SendTestFailed(a, rec, "TypeError") /\ authNet' = authNet
           ELSE /\ auth' = [auth EXCEPT ![a] = [rec EXCEPT !.pc = "awaitSendTest"]]
                /\ log' = log
                /\ authNet' = authNet \cup
                              {AReq(a, "sendTest", e.s.gmailService, 0)}
  /\ UNCHANGED <<store, schedVars, runVars, unhandled, budget, cancelled>>

\* messages.send of sendTestEmail answers (lines 636-645)
SendTestResponds(a, ok) ==
  /\ auth[a].pc = "awaitSendTest"
  /\ Provider(ok)
  /\ \E q \in authNet :
       /\ q.call = a /\ q.kind = "sendTest"
       /\ authNet' = authNet \ {q}
       /\ IF ok
            THEN /\ auth' = [auth EXCEPT ![a] =
                               Returned(auth[a], [success |-> TRUE,
                                                  messageId |-> "m1"])]
                 /\ log' = log
            ELSE SendTestFailed(a, auth[a], "provider error")
  /\ UNCHANGED <<sessVars, schedVars, runVars, unhandled, cancelled>>

(* --- updateSheetStatus called through ipcMain.handle('sheets-update-status') *)
\* the arguments of the call: sheet, tab title if any, the header row the
\* renderer holds, the 0-based row and the status text
StatusArgs ==
  { [sheetId |-> "S1", sheetTitle |-> Null, headers |-> InitialHeader("S1"),
     rowIndexZeroBased |-> 0, status |-> "SENT"],
    [sheetId |-> "S2", sheetTitle |-> "Data", headers |-> InitialHeader("S2"),
     rowIndexZeroBased |-> 1, status |-> "FAILED"] }

\* the single-cell update of lines 449-458 is issued for column index col
StatusIssueCell(a, rec, title, headers, col, client) ==
  /\ auth' = [auth EXCEPT ![a] =
                [rec EXCEPT !.pc = "awaitStatusCell",
                            !.work = [title |-> title, headers |-> headers,
                                      col |-> columnIndexToA1(col)]]]
  /\ authNet' = authNet \cup {AReq(a, "statusCell", client, 0)}

\* ensureStatusColumn (lines 418-427) for the call, up to its next await
StatusEnsureColumn(a, rec, title, client) ==
  LET headers == rec.arg.headers
      idx == findStatusIndex(headers)
      pushed == Append(headers, STR_Status)
  IN IF idx = -1
       THEN /\ auth' = [auth EXCEPT ![a] =
                          [rec EXCEPT !.pc = "awaitStatusHdr",
                                      !.work = [title |-> title,
                                                headers |-> pushed,
                                                col |-> columnIndexToA1(
                                                          Len(pushed) - 1)]]]
            /\ authNet' = authNet \cup {AReq(a, "statusHdr", client, 0)}
       ELSE StatusIssueCell(a, rec, title, headers, idx, client)

\* updateSheetStatus up to its first await on the provider (lines 440-447);
\* ensureServices is awaited outside any try
updateSheetStatus(a, arg) ==
  /\ FreeSlot(a)
  /\ LET e == ensureServices(Sess, store)
         rec == [auth[a] EXCEPT !.op = "updateSheetStatus", !.arg = arg]
     IN IF ~e.ok
          THEN /\ auth' = [auth EXCEPT ![a] = Threw(rec, e.error)]
               /\ UNCHANGED <<oauth2Client, gmailService, sheetsService,
                              oauthClients, authNet>>
        ELSE IF Falsy(arg.sheetTitle)
          THEN /\ SetSess(e.s)
               /\ auth' = [auth EXCEPT ![a] = [rec EXCEPT !.pc = "awaitMeta"]]
               /\ authNet' = authNet \cup
                             {AReq(a, "meta", e.s.sheetsService, 0)}
        ELSE /\ SetSess(e.s)
             /\ StatusEnsureColumn(a, rec, arg.sheetTitle, e.s.sheetsService)
  /\ UNCHANGED <<store, schedVars, runVars, log, unhandled, budget, cancelled>>

\* spreadsheets.get of line 445 answers; the call is outside any try
MetaResponds(a, ok) ==
  /\ auth[a].pc = "awaitMeta"
  /\ Provider(ok)
  /\ \E q \in authNet :
       /\ q.call = a /\ q.kind = "meta"
       /\ IF ok
            THEN LET rest == authNet \ {q}
                     rec == auth[a]
                     title == FirstTab(rec.arg.sheetId)
                     headers == rec.arg.headers
                     idx == findStatusIndex(headers)
                     pushed == Append(headers, STR_Status)
                 IN /\ auth' = [auth EXCEPT ![a] =
                          IF idx = -1
                            THEN [rec EXCEPT !.pc = "awaitStatusHdr",
                                             !.work = [title |-> title,
                                                       headers |-> pushed,
                                                       col |-> columnIndexToA1(
                                                                 Len(pushed) - 1)]]
                            ELSE [rec EXCEPT !.pc = "awaitStatusCell",
                                             !.work = [title |-> title,
                                                       headers |-> headers,
                                                       col |-> columnIndexToA1(idx)]]]
                    /\ authNet' = rest \cup
                         {AReq(a, IF idx = -1 THEN "statusHdr" ELSE "statusCell",
                               sheetsService, 0)}
            ELSE /\ auth' = [auth EXCEPT ![a] = Threw(auth[a], "provider error")]
                 /\ authNet' = authNet \ {q}
  /\ UNCHANGED <<sessVars, schedVars, runVars, log, unhandled, cancelled>>

\* the header-row update of ensureStatusColumn answers (lines 424-437); the
\* cell update follows whatever the column index is
StatusHeaderResponds(a, ok) ==
  /\ auth[a].pc = "awaitStatusHdr"
  /\ Provider(ok)
  /\ \E q \in authNet :
       /\ q.call = a /\ q.kind = "statusHdr"
       /\ LET rec == auth[a]
              sid == rec.arg.sheetId
              w == rec.work
              done == ok /\ w.title = FirstTab(sid)
          IN /\ IF done
                  THEN /\ sheetHdr' = [sheetHdr EXCEPT ![sid] = w.headers]
                       /\ log' = log
                  ELSE /\ sheetHdr' = sheetHdr
                       /\ log' = log \cup
                            {[level |-> "error",
                              message |-> "Failed to ensure Status column",
                              error |-> "provider error"]}
             /\ auth' = [auth EXCEPT ![a] =
                           [rec EXCEPT !.pc = "awaitStatusCell",
                                       !.work.col =
                                          IF done THEN @ ELSE columnIndexToA1(-1)]]
             /\ authNet' = (authNet \ {q}) \cup
                           {AReq(a, "statusCell", sheetsService, 0)}
  /\ UNCHANGED <<sessVars, schedVars, run, net, delays, cells, unhandled,
                 cancelled>>

\* the cell update answers (lines 452-463)
StatusCellResponds(a, ok) ==
  /\ auth[a].pc = "awaitStatusCell"
  /\ Provider(ok)
  /\ \E q \in authNet :
       /\ q.call = a /\ q.kind = "statusCell"
       /\ authNet' = authNet \ {q}
       /\ LET rec == auth[a]
              sid == rec.arg.sheetId
              w == rec.work
              done == ok /\ w.title = FirstTab(sid)
          IN IF done
               THEN /\ cells' = cells \cup
                         {[sheetId |-> sid, title |-> w.title, col |-> w.col,
                           row |-> rowA1(rec.arg.rowIndexZeroBased),
                           text |-> rec.arg.status]}
                    /\ log' = log
                    /\ auth' = [auth EXCEPT ![a] =
                                  Returned(rec, [success |-> TRUE])]
               ELSE /\ cells' = cells
                    /\ log' = log \cup
                         {[level |-> "error",
                           message |-> "Sheets status update failed",
                           error |-> "provider error"]}
                    /\ auth' = [auth EXCEPT ![a] =
                                  Returned(rec, [success |-> FALSE,
                                                 error |-> "provider error"])]
  /\ UNCHANGED <<sessVars, schedVars, run, net, delays, sheetHdr, unhandled,
                 cancelled>>

(* ------------------------------------- functions applied on their own *)
\* a field of a credential object: absent, or present with one of the values
Optional(key, values) == {<<>>} \cup {key :> v : v \in values}

\* credential objects: each of client_id, client_secret and redirect_uris
\* absent, empty or filled
CredentialObjects ==
  { id @@ secret @@ uris :
      id \in Optional("client_id", {"", "cid"}),
      secret \in Optional("client_secret", {"", "sec"}),
      uris \in Optional("redirect_uris",
                        { <<>>,
                          <<Uri("https", "app.example.com", 0, "/cb")>>,
                          <<Uri("https", "app.example.com", 0, "/cb"),
                            Uri("http", "localhost", 3000, "/oauth")>> }) }

\* the documents normalizeCredentials is applied to: every credential object
\* in the web, the installed and the flat shape, and no document at all
NormalizeInputs ==
  {[web |-> c] : c \in CredentialObjects}
    \cup {[installed |-> c] : c \in CredentialObjects}
    \cup CredentialObjects
    \cup {[isNull |-> TRUE]}

\* normalizeCredentials(raw) is called and returns or throws
Normalize(a, raw) ==
  /\ FreeSlot(a)
  /\ LET n == normalizeCredentials(raw)
         rec == [auth[a] EXCEPT !.op = "normalizeCredentials", !.arg = raw]
     IN auth' = [auth EXCEPT ![a] = IF n.ok THEN Returned(rec, n.norm)
                                    ELSE Threw(rec, n.error)]
  /\ UNCHANGED <<sessVars, schedVars, runVars, log, unhandled, budget,
                 authNet, cancelled>>

(* --- renderWithRow applied to texts, header lists, rows and signatures --- *)
STR_Hi == <<"H","i"," ">>
STR_Ann == <<"A","n","n">>
STR_Mail == <<"a","@","x",".","c","o","m">>
H_Phone == <<"P","h","o","n","e">>
H_NamePadded == <<" ">> \o H_Name \o <<" ">>

\* the texts, header lists, rows and signatures renderWithRow is applied to
RenderTexts ==
  { <<>>,
    STR_Hi \o Pattern(H_Name),
    Pattern(H_Name) \o Pattern(H_Email) \o Pattern(H_Name),
    STR_Hi \o Pattern(H_Phone) \o Pattern(H_Name),
    Pattern(toLowerCase(H_Name)),
    Pattern(H_NamePadded) }

RenderHeaders == { <<H_Name, H_Email>>, <<H_Email, H_Name>>, <<H_NamePadded>> }

RenderRows ==
  { <<Some(STR_Ann), Some(STR_Mail)>>,
    <<Some(STR_Ann \o Pattern(H_Name)), Some(STR_Ann)>>,
    <<Some(<<"$", "&">>), Some(<<"$", "$">>)>>,
    <<None, Some(STR_Ann)>>,
    <<>> }

RenderSignatures == { <<>>, <<"<","b",">","B","o","<","/","b",">","<",">">> }

RenderInputs ==
  [content : RenderTexts, headers : RenderHeaders, row : RenderRows,
   signature : RenderSignatures]

\* renderWithRow is called on an input and returns
Render(a, in) ==
  /\ FreeSlot(a)
  /\ auth' = [auth EXCEPT ![a] =
                Returned([auth[a] EXCEPT !.op = "renderWithRow", !.arg = in],
                         renderWithRow(in.content, in.headers, in.row,
                                       in.signature))]
  /\ UNCHANGED <<sessVars, schedVars, runVars, log, unhandled, budget,
                 authNet, cancelled>>

(* --- buildRawEmail (lines 585-623) and sendEmail (lines 648-669) ---      *)
(* A raw message is the sequence of its CRLF-separated lines; a line is the *)
(* sequence of the pieces it is put together from.                          *)
\* the files on disk, with their size in bytes; fs.readFileSync throws for
\* every other path
Disk == ("/d/a.pdf" :> 3) @@ ("/d/notes" :> 100)

AttachmentPaths == {"/d/a.pdf", "/d/notes", "/d/gone.txt"}

\* path.basename
basename(p) ==
  CASE p = "/d/a.pdf" -> "a.pdf"
    [] p = "/d/notes" -> "notes"
    [] p = "/d/gone.txt" -> "gone.txt"

\* mime.lookup(filename) || 'application/octet-stream'
ctype(filename) ==
  CASE filename = "a.pdf" -> "application/pdf"
    [] filename = "gone.txt" -> "text/plain"
    [] OTHER -> "application/octet-stream"

\* the possible values of 'mixed_' + Math.random().toString(36).slice(2)
Boundaries == {"mixed_k3x", "mixed_9qz"}

EmptyLine == <<>>

\* the number of characters of data.toString('base64')
base64Length(bytes) == 4 * ((bytes + 2) \div 3)

ChunkNames == <<"chunk 1", "chunk 2", "chunk 3">>

\* wrap76(data.toString('base64')): one line for every 76 characters
wrap76(p) ==
  [k \in 1..((base64Length(Disk[p]) + 75) \div 76) |->
     <<"base64 of ", p, ChunkNames[k]>>]

\* AttachmentPart with the disposition `inline` for `attachment`
AttachmentPart_Inline(p, boundary) ==
  << <<"--", boundary>>,
     <<"Content-Type: ", ctype(basename(p)), "; name=", basename(p)>>,
     <<"Content-Transfer-Encoding: base64">>,
     <<"Content-Disposition: inline; filename=", basename(p)>>,
     EmptyLine >>
    \o wrap76(p) \o <<EmptyLine>>

\* lines 604-611: the part of a file that could be read
AttachmentPart(p, boundary) ==
  << <<"--", boundary>>,
     <<"Content-Type: ", ctype(basename(p)), "; name=", basename(p)>>,
     <<"Content-Transfer-Encoding: base64">>,
     <<"Content-Disposition: attachment; filename=", basename(p)>>,
     EmptyLine >>
    \o wrap76(p) \o <<EmptyLine>>

\* the for loop of lines 602-615 with the try around the loop instead of
\* inside it: the first file that cannot be read ends the loop
RECURSIVE attachmentParts_StopAtUnreadable(_, _)
attachmentParts_StopAtUnreadable(attachments, boundary) ==
  IF attachments = <<>> THEN <<>>
  ELSE IF Head(attachments) \in DOMAIN Disk
    THEN AttachmentPart(Head(attachments), boundary)
           \o attachmentParts_StopAtUnreadable(Tail(attachments), boundary)
  ELSE <<>>

\* the for loop of lines 602-615: a file that cannot be read adds nothing
RECURSIVE attachmentParts(_, _)
attachmentParts(attachments, boundary) ==
  IF attachments = <<>> THEN <<>>
  ELSE (IF Head(attachments) \in DOMAIN Disk
          THEN AttachmentPart(Head(attachments), boundary) ELSE <<>>)
         \o attachmentParts(Tail(attachments), boundary)

\* the logEvent calls of line 613
attachmentLogs(attachments) ==
  {[level |-> "error", message |-> "Attachment read failed",
    error |-> "ENOENT", path |-> attachments[k]] :
     k \in {j \in 1..Len(attachments) : attachments[j] \notin DOMAIN Disk}}

\* buildRawEmail: the lines of the message and the entries it logged
buildRawEmail(from, to, subject, text, attachments, boundary) ==
  LET headers == (IF from # "" THEN << <<"From: ", from>> >> ELSE <<>>)
                   \o << <<"To: ", to>>, <<"Subject: ", subject>>,
                         <<"MIME-Version: 1.0">> >>
  IN IF Len(attachments) > 0
       THEN [raw |-> headers
                       \o << <<"Content-Type: multipart/mixed; boundary=", boundary>>,
                             EmptyLine,
                             <<"--", boundary>>,
                             <<"Content-Type: text/plain; charset=UTF-8">>,
                             <<"Content-Transfer-Encoding: 7bit">>,
                             EmptyLine,
                             <<text>> >>
                       \o attachmentParts(attachments, boundary)
                       \o << <<"--", boundary, "--">> >>,
             logged |-> attachmentLogs(attachments)]
       ELSE [raw |-> headers
                       \o << <<"Content-Type: text/plain; charset=UTF-8">>,
                             <<"Content-Transfer-Encoding: 7bit">>,
                             EmptyLine,
                             <<text>> >>,
             logged |-> {}]

\* toBase64Url: the base64url encoding of the message
toBase64Url(str) == [base64url |-> str]

\* the emailData handed to sendEmail
AttachmentLists ==
  { <<>>, <<"/d/a.pdf">>, <<"/d/gone.txt">>, <<"/d/a.pdf", "/d/notes">>,
    <<"/d/a.pdf", "/d/gone.txt", "/d/notes">>, <<"/d/gone.txt", "/d/notes">> }

SendEmailDocs ==
  [to : {"ann@x.com"}, from : {"", "me@x.com"}, subject : {"Hello"},
   content : {"", "Hi Ann"}, attachmentsPaths : AttachmentLists]
    \cup [to : {"ann@x.com"}, from : {"me@x.com"}, subject : {"Hello"},
          content : {"Hi Ann"}]
    \cup {[isNull |-> TRUE]}

\* emailData.attachmentsPaths || []
attachmentsOf(emailData) ==
  IF Has(emailData, "attachmentsPaths") THEN emailData.attachmentsPaths ELSE <<>>

\* the catch block of sendEmail (lines 663-668)
SendEmailFailed(a, rec, msg, logBase) ==
  /\ auth' = [auth EXCEPT ![a] =
                Returned(rec, [success |-> FALSE, error |-> msg])]
  /\ log' = logBase \cup {[level |-> "error", message |-> "Email sending error",
                           error |-> msg]}

\* sendEmail up to its send (lines 648-659)
sendEmail(a, emailData, boundary) ==
  /\ FreeSlot(a)
  /\ LET e == ensureServices(Sess, store)
         rec == [auth[a] EXCEPT !.op = "sendEmail", !.arg = emailData]
     IN /\ SetSess(e.s)
        /\ IF ~e.ok
             THEN SendEmailFailed(a, rec, e.error, log) /\ authNet' = authNet
           ELSE IF IsNullDoc(emailData)
             THEN SendEmailFailed(a, rec, "TypeError", log) /\ authNet' = authNet
           ELSE LET built == buildRawEmail(emailData.from, emailData.to,
                                           emailData.subject, emailData.content,
                                           attachmentsOf(emailData), boundary)
                IN /\ auth' = [auth EXCEPT ![a] =
                                 [rec EXCEPT !.pc = "awaitSendEmail",
                                             !.work = built.raw]]
                   /\ log' = log \cup built.logged
                   /\ authNet' = authNet \cup
                        {AReq(a, "sendEmail", e.s.gmailService, 0)
                           @@ [raw |-> toBase64Url(built.raw)]}
  /\ UNCHANGED <<store, schedVars, runVars, unhandled, budget, cancelled>>

\* messages.send of sendEmail answers (lines 659-668)
SendEmailResponds(a, ok) ==
  /\ auth[a].pc = "awaitSendEmail"
  /\ Provider(ok)
  /\ \E q \in authNet :
       /\ q.call = a /\ q.kind = "sendEmail"
       /\ authNet' = authNet \ {q}
       /\ IF ok
            THEN /\ auth' = [auth EXCEPT ![a] =
                               Returned(auth[a], [success |-> TRUE,
                                                  messageId |-> "m1"])]
                 /\ log' = log
            ELSE SendEmailFailed(a, auth[a], "provider error", log)
  /\ UNCHANGED <<sessVars, schedVars, runVars, unhandled, cancelled>>

(* ------------------------------------------------------------------ specs *)
StoredCreds ==
  [client_id |-> "cid0", client_secret |-> "secret0", redirect_uri |-> NullUri,
   fixed |-> FALSE, host |-> "localhost"]

PersistedToken == [token |-> "persisted", flow |-> 0]

\* a started process: nothing built, nothing scheduled, no call made; the
\* store holds what an earlier session of the application persisted, if
\* anything. The behaviour has room for `jobs` scheduled jobs and `calls`
\* calls of the boundary, and the environment may fail `faults` external
\* calls and send `requests` requests to callback listeners
InitWith(jobs, calls, faults, requests) ==
  /\ store \in {<<>>,
                [googleToken |-> PersistedToken, googleCreds |-> StoredCreds]}
  /\ oauth2Client = 0
  /\ gmailService = 0
  /\ sheetsService = 0
  /\ oauthClients = <<>>
  /\ jobsMap = <<>>
  /\ timers = <<>>
  /\ nextId = 1
  /\ run = [id \in 1..jobs |-> NoRun]
  /\ net = {}
  /\ delays = {}
  /\ sheetHdr = [s \in SheetIds |-> InitialHeader(s)]
  /\ cells = {}
  /\ log = {}
  /\ unhandled = {}
  /\ budget = [faults |-> faults, requests |-> requests]
  /\ cancelled = [id \in 1..jobs |-> "no"]
  /\ auth = [a \in 1..calls |-> NoAuth]
  /\ authNet = {}

Init == InitWith(MaxJobs, MaxAuth, MaxFaults, MaxRequests)

NextCampaign ==
  \/ \E p \in CampaignParams, now \in NowChoices : scheduleOneTimeCampaign(p, now)
  \/ \E id \in JobIds : CancelScheduled(id)
  \/ \E id \in JobIds : TimerFires(id)
  \/ \E id \in JobIds, ok \in BOOLEAN : GetResponds(id, ok)
  \/ \E id \in JobIds, ok \in BOOLEAN, sig \in SigChoices :
       SignatureResponds(id, ok, sig)
  \/ \E id \in JobIds, ok \in BOOLEAN : SendResponds(id, ok)
  \/ \E id \in JobIds, ok \in BOOLEAN : HeaderWriteResponds(id, ok)
  \/ \E id \in JobIds, ok \in BOOLEAN : CellWriteResponds(id, ok)
  \/ \E id \in JobIds : DelayElapses(id)

NextAuth ==
  \/ \E a \in AuthIds, raw \in CredentialDocs : authenticateGoogle(a, raw)
  \/ \E a \in AuthIds, ok \in BOOLEAN : ProfileFastResponds(a, ok)
  \/ \E a \in AuthIds, ok \in BOOLEAN : ListenResponds(a, ok)
  \/ \E a \in AuthIds, ok \in BOOLEAN : OpenResponds(a, ok)
  \/ \E a \in AuthIds, hasCode \in BOOLEAN : CallbackArrives(a, hasCode)
  \/ \E a \in AuthIds, ok \in BOOLEAN : TokenResponds(a, ok)
  \/ \E a \in AuthIds : CloseCallback(a)
  \/ \E a \in AuthIds, ok \in BOOLEAN : ProfileResponds(a, ok)
  \/ \E a \in AuthIds : AuthTimeout(a)
  \/ InitializeService

\* the authenticate calls alone
NextFlow ==
  \/ \E a \in AuthIds, raw \in CredentialDocs : authenticateGoogle(a, raw)
  \/ \E a \in AuthIds, ok \in BOOLEAN : ProfileFastResponds(a, ok)
  \/ \E a \in AuthIds, ok \in BOOLEAN : ListenResponds(a, ok)
  \/ \E a \in AuthIds, ok \in BOOLEAN : OpenResponds(a, ok)
  \/ \E a \in AuthIds, hasCode \in BOOLEAN : CallbackArrives(a, hasCode)
  \/ \E a \in AuthIds, ok \in BOOLEAN : TokenResponds(a, ok)
  \/ \E a \in AuthIds : CloseCallback(a)
  \/ \E a \in AuthIds, ok \in BOOLEAN : ProfileResponds(a, ok)
  \/ \E a \in AuthIds : AuthTimeout(a)

Next == NextCampaign \/ NextAuth

\* the scheduler and the campaign runner
SpecCampaign == Init /\ [][NextCampaign]_vars

\* the session manager
SpecAuth == Init /\ [][NextAuth]_vars

\* the session manager together with the store handlers of the renderer
NextStore ==
  \/ NextAuth
  \/ \E key \in StoreKeys : StoreSetHandler(key)
  \/ \E key \in StoreKeys : StoreDeleteHandler(key)

SpecStore == Init /\ [][NextStore]_vars

\* the calls of the public boundary that report through a result
NextApi ==
  \/ \E a \in AuthIds, arg \in ConnectArgs : connectToSheets(a, arg)
  \/ \E a \in AuthIds, ok \in BOOLEAN : ValuesResponds(a, ok)
  \/ \E a \in AuthIds, emailData \in EmailDocs : sendTestEmail(a, emailData)
  \/ \E a \in AuthIds, ok \in BOOLEAN : SendTestResponds(a, ok)

SpecApi == Init /\ [][NextFlow \/ NextApi]_vars

\* status write-back: by the renderer's call and by the campaign runner
NextStatus ==
  \/ \E a \in AuthIds, arg \in StatusArgs : updateSheetStatus(a, arg)
  \/ \E a \in AuthIds, ok \in BOOLEAN : MetaResponds(a, ok)
  \/ \E a \in AuthIds, ok \in BOOLEAN : StatusHeaderResponds(a, ok)
  \/ \E a \in AuthIds, ok \in BOOLEAN : StatusCellResponds(a, ok)

SpecStatus == Init /\ [][NextCampaign \/ NextStatus]_vars

NextNormalize ==
  \E a \in AuthIds, raw \in NormalizeInputs : Normalize(a, raw)

SpecNormalize == Init /\ [][NextNormalize]_vars

NextRender ==
  \E a \in AuthIds, in \in RenderInputs : Render(a, in)

SpecRender == Init /\ [][NextRender]_vars

NextMessage ==
  \/ \E a \in AuthIds, emailData \in SendEmailDocs, boundary \in Boundaries :
       sendEmail(a, emailData, boundary)
  \/ \E a \in AuthIds, ok \in BOOLEAN : SendEmailResponds(a, ok)

SpecMessage == Init /\ [][NextMessage]_vars

Spec == Init /\ [][Next \/ NextStore \/ NextApi \/ NextStatus
                     \/ NextNormalize \/ NextRender \/ NextMessage]_vars

\* the authenticate calls with their scheduling: the event loop keeps running the
\* callbacks that are ready (an armed timer's, a closed listener's, an answered
\* profile request's)
Ready ==
  \E a \in AuthIds :
    \/ AuthTimeout(a)
    \/ CloseCallback(a)
    \/ \E ok \in BOOLEAN : ProfileResponds(a, ok)

FairSpecAuth == Init /\ [][NextFlow]_vars /\ WF_vars(Ready)

\* the scheduled jobs with their scheduling: an armed timer fires, a request
\* to the provider is answered, a delay elapses
RunStep ==
  \E id \in JobIds :
    \/ TimerFires(id)
    \/ \E ok \in BOOLEAN : GetResponds(id, ok)
    \/ \E ok \in BOOLEAN, sig \in SigChoices : SignatureResponds(id, ok, sig)
    \/ \E ok \in BOOLEAN : SendResponds(id, ok)
    \/ \E ok \in BOOLEAN : HeaderWriteResponds(id, ok)
    \/ \E ok \in BOOLEAN : CellWriteResponds(id, ok)
    \/ DelayElapses(id)

FairSpecCampaign == Init /\ [][NextCampaign]_vars /\ WF_vars(RunStep)

\* campaigns on sheets with data whose status writes go to a tab that
\* exists (the tab is named, or it is the 'Sheet1' that line 709 falls back
\* to), for runs that go on side by side
ConcurrentParams ==
  {p \in CampaignParams :
     /\ p.sheetId \in {"S1", "S2"}
     /\ (IF p.sheetTitle = Null THEN "Sheet1" ELSE p.sheetTitle) = FirstTab(p.sheetId)}

\* scheduled jobs firing close to each other, the provider answering every
\* request successfully
NextConcurrent ==
  \/ \E p \in ConcurrentParams, now \in NowChoices : scheduleOneTimeCampaign(p, now)
  \/ \E id \in JobIds : TimerFires(id)
  \/ \E id \in JobIds : GetResponds(id, TRUE)
  \/ \E id \in JobIds, sig \in SigChoices : SignatureResponds(id, TRUE, sig)
  \/ \E id \in JobIds : SendResponds(id, TRUE)
  \/ \E id \in JobIds : HeaderWriteResponds(id, TRUE)
  \/ \E id \in JobIds : CellWriteResponds(id, TRUE)
  \/ \E id \in JobIds : DelayElapses(id)

SpecConcurrent ==
  InitWith(MaxJobs + 1, MaxAuth, MaxFaults, MaxRequests) /\ [][NextConcurrent]_vars

\* authenticate calls that overlap in time: one more call than SpecAuth has
\* room for
SpecOverlap ==
  InitWith(MaxJobs, MaxAuth + 1, MaxFaults, MaxRequests) /\ [][NextFlow]_vars

\* a browser that sends one more request to a callback listener than
\* SpecAuth has room for
SpecRepeat ==
  InitWith(MaxJobs, MaxAuth, MaxFaults, MaxRequests + 1) /\ [][NextFlow]_vars

\* an environment in which one more external call fails than in SpecAuth, so
\* that a fallback listener fails to bind as well
SpecBind ==
  InitWith(MaxJobs, MaxAuth, MaxFaults + 1, MaxRequests) /\ [][NextFlow]_vars

(* ----------------------------------------------------------------- claims *)
Ended(id) == run[id].pc \in {"done", "failed"}

SendsInFlight(id) == {q \in net : q.run = id /\ q.kind = "send"}

\* C1: in a campaign run, a send that fails for one row is caught and logged
\* and the run still attempts a send for every later row that has a
\* recipient: a run that has ended after a failed send has attempted every
\* such row and has ended normally, not by the failure.
C1_SendFailureIsolated ==
  \A id \in JobIds :
    (Ended(id) /\ run[id].sendFail # {}) =>
       /\ run[id].pc = "done"
       /\ Sendable(run[id], 0) \subseteq (run[id].sendOk \cup run[id].sendFail)

\* C2: within one run at most one row's send is in flight, and a send is in
\* flight only when the run has no other provider call and no delay pending
\* and the send, the status write-back and the delay of every row sent
\* earlier in the run have completed.
C2_OneRowInFlight ==
  \A id \in JobIds :
    /\ Cardinality(SendsInFlight(id)) <= 1
    /\ \A q \in SendsInFlight(id) :
         /\ {x \in net : x.run = id} = {q}
         /\ \A d \in delays : d.run # id
         /\ \A j \in run[id].sendOk \cup run[id].sendFail :
              /\ j < q.row
              /\ j \in run[id].statusDone
              /\ j \in run[id].delayDone

C2_Witness ==
  \E id \in JobIds :
    /\ SendsInFlight(id) # {}
    /\ run[id].sendOk # {}
    /\ run[id].delayDone # {}

\* C3: for every row whose send has finished, successfully or not, a status
\* write-back has been attempted by the time the run moves on to a later row
\* or ends; and "SENT" is written only for rows whose send succeeded.
C3_StatusAfterEverySend ==
  /\ \A id \in JobIds :
       \A j \in run[id].sendOk \cup run[id].sendFail :
         (Ended(id) \/ run[id].i > j) => j \in run[id].statusDone
  /\ \A c \in cells :
       c.text = "SENT" =>
         \E id \in JobIds :
           /\ run[id].pc # "none"
           /\ run[id].params.sheetId = c.sheetId
           /\ (c.row - 2) \in run[id].sendOk

\* C4: a job cancelled while its timer was still armed is never run (the
\* campaign runner's call count for it stays 0 in every later state) and is
\* not in the registry.
C4_CancelledNeverRuns ==
  \A id \in JobIds :
    cancelled[id] = "pending" =>
      /\ run[id].calls = 0
      /\ run[id].pc = "none"
      /\ id \notin DOMAIN timers
      /\ id \notin DOMAIN jobsMap

C4_Witness ==
  \E id \in JobIds : cancelled[id] = "pending" /\ id < nextId

\* C5: cancelScheduled(id) returns success exactly when the job is pending
\* (its timer is armed); it returns failure for an unknown id, a cancelled
\* job and a job that has fired, running or finished; so no cancel ever
\* succeeded on a fired job.
C5_CancelSucceedsOnlyWhilePending ==
  \A id \in JobIds :
    /\ cancelReturn(id) <=> id \in DOMAIN timers
    /\ cancelled[id] # "fired"

\* C6: listScheduled() returns exactly the pending jobs: the ids listed are
\* the jobs whose timer is armed; a fired job is never listed.
C6_ListIsExactlyPending ==
  {j.id : j \in listScheduledJobs} = DOMAIN timers

\* C7: when a fired job's run raises an error, the error is logged, nothing
\* escapes the timer callback, and the job is removed from the registry; the
\* job is removed after a run that returns normally too.
C7_FiringErrorsContained ==
  /\ unhandled = {}
  /\ \A id \in JobIds :
       /\ run[id].pc = "failed" =>
            /\ id \notin DOMAIN jobsMap
            /\ \E e \in log : /\ e.message = "Scheduled run failed"
                              /\ e.error = run[id].error
       /\ run[id].pc = "done" => id \notin DOMAIN jobsMap

C7_Witness ==
  \E id \in JobIds :
    /\ run[id].pc = "failed"
    /\ run[id].error \in {"No Email column found", "No data found in sheet",
                          "Not authenticated", "provider error"}
    /\ run[id].calls = 1

\* C8: when a token was stored and reusing it succeeded, authenticate has
\* returned success with the account's address, and the call has created no
\* callback listener, armed no timeout and opened no browser.
C8_FastPathOpensNothing ==
  \A a \in AuthIds :
    auth[a].reuse = "ok" =>
      /\ auth[a].hadToken
      /\ auth[a].pc = "returned"
      /\ auth[a].result = [success |-> TRUE, userEmail |-> ProfileEmail]
      /\ auth[a].servers = <<>>
      /\ auth[a].opens = 0
      /\ ~auth[a].timer

C8_Witness ==
  \E a \in AuthIds : auth[a].reuse = "ok" /\ auth[a].pc = "returned"

\* C9: when a token was stored and reusing it failed, authenticate goes on
\* with the interactive flow: the call has started a callback listener.
C9_ReuseFailureStartsInteractiveFlow ==
  \A a \in AuthIds :
    auth[a].reuse = "failed" =>
      /\ auth[a].servers # <<>>
      /\ auth[a].promise # "none"

\* C10: once the listener has answered a request without a code with 400,
\* the authenticate call is no longer waiting: its promise is rejected and
\* the call has returned a failure.
C10_MissingCodeFailsAuthentication ==
  \A a \in AuthIds :
    (\E k \in 1..Len(auth[a].responses) : auth[a].responses[k] = 400) =>
      /\ auth[a].promise = "rejected"
      /\ auth[a].pc = "returned"
      /\ auth[a].result.success = FALSE

\* C11: every interactive authenticate call eventually returns a structured
\* result: from some point on no call is waiting for its callback or for the
\* profile of the new token, and every call made has returned a result; when
\* no callback with a code arrives it is the timeout that ends the call, with
\* a failure result.
C11_InteractiveCallReturns ==
  <>[](\A a \in AuthIds :
         \/ auth[a].pc \in {"none", "awaitProfileFast"}
         \/ /\ auth[a].pc = "returned"
            /\ \/ auth[a].result = [success |-> TRUE, userEmail |-> ProfileEmail]
               \/ /\ DOMAIN auth[a].result = {"success", "error"}
                  /\ auth[a].result.success = FALSE)

C11_Witness ==
  \E a \in AuthIds :
    /\ auth[a].pc = "returned"
    /\ auth[a].requests = 0
    /\ ~auth[a].timer
    /\ auth[a].result = [success |-> FALSE, error |-> TimeoutError]

\* C12: in every interactive flow each callback listener is closed at most
\* once (no second close by a later path), and no listener is binding or
\* listening once the flow's promise has settled.
C12_ListenerClosedExactlyOnce ==
  \A a \in AuthIds :
    /\ \A k \in 1..Len(auth[a].servers) : auth[a].servers[k].closes <= 1
    /\ auth[a].promise \in {"resolved", "rejected"} =>
         \A k \in 1..Len(auth[a].servers) :
            auth[a].servers[k].state \notin {"binding", "listening"}

\* C13: when the first bind failed and the flow fell back to another
\* listener, a callback carrying a code that arrives on the fallback listener
\* is exchanged: while the flow is still waiting and unsettled, the token
\* request for that code is in flight.
C13_FallbackListenerExchangesCode ==
  \A a \in AuthIds :
    (/\ Len(auth[a].servers) > 1
     /\ auth[a].codes > 0
     /\ auth[a].promise = "pending"
     /\ ~auth[a].settled) =>
       \E q \in authNet : q.call = a /\ q.kind = "token"

\* C14: in every state where the stored credentials or the stored token is
\* absent, ensureClients fails with NotAuthenticated and builds nothing; in
\* every state where all three handles exist, it succeeds and changes none.
C14_EnsureClientsNeedsStoredSession ==
  LET e == ensureServices(Sess, store)
  IN /\ ~(Has(store, "googleToken") /\ Has(store, "googleCreds")) =>
          /\ ~e.ok
          /\ e.error = "Not authenticated"
          /\ e.s = Sess
     /\ (oauth2Client # 0 /\ gmailService # 0 /\ sheetsService # 0) =>
          e.ok /\ e.s = Sess

\* C15: an authenticate call that found no stored token and returned a
\* failure leaves the session unauthenticated: no token is stored and an
\* operation that needs the clients fails with NotAuthenticated.
C15_FailedAuthenticationRollsBack ==
  \A a \in AuthIds :
    (/\ auth[a].pc = "returned"
     /\ ~auth[a].hadToken
     /\ ~auth[a].result.success
     /\ \A b \in AuthIds : b # a => auth[b].pc = "none") =>
       /\ ~Has(store, "googleToken")
       /\ ~ensureServices(Sess, store).ok

\* the part of the store the session manager owns
SessionKeys(st) ==
  [k \in (DOMAIN st) \cap {"googleToken", "googleCreds"} |-> st[k]]

\* a step keeps the session's stored data in the session manager's hands
SessionStoreStep ==
  /\ \A q \in authNet :
       (q.kind = "closed" /\ q \notin authNet') =>
          /\ Has(store', "googleToken")
          /\ store'.googleToken = q.tokens
  /\ (SessionKeys(store') # SessionKeys(store)) =>
       (\E a \in AuthIds : auth'[a] # auth[a])

\* C16: when the close callback of a successful code exchange has run, the
\* stored token is the token set that exchange issued, in full; and every
\* step that changes the stored token or the stored credentials is a step
\* of an authenticate call.
C16_OnlyAuthenticateWritesSession == [][SessionStoreStep]_vars

\* a structured result of the public boundary
Structured(res) ==
  /\ "success" \in DOMAIN res
  /\ res.success \in BOOLEAN
  /\ ~res.success => (DOMAIN res = {"success", "error"} /\ res.error # "")

\* C17: no call of authenticate, connectToSheets or sendTestEmail ends by
\* throwing past the boundary: every call that has ended has returned a
\* structured result, a failure being {success: FALSE, error}.
C17_BoundaryReturnsStructuredResult ==
  /\ unhandled = {}
  /\ \A a \in AuthIds :
       auth[a].op \in {"authenticateGoogle", "connectToSheets", "sendTestEmail"} =>
         /\ auth[a].pc # "threw"
         /\ auth[a].pc = "returned" => Structured(auth[a].result)

C17_Witness ==
  \E a \in AuthIds :
    /\ auth[a].op = "connectToSheets"
    /\ auth[a].pc = "returned"
    /\ auth[a].result = [success |-> FALSE, error |-> "No data found in sheet"]

\* C18: once writing the header row has failed in a run, the Status column
\* is unavailable and no status cell write is issued by that run, neither
\* for the row at hand nor for a later row.
C18_NoCellWriteWhileColumnUnavailable ==
  \A id \in JobIds :
    run[id].hdrFail # {} =>
      ~\E q \in net : q.run = id /\ q.kind = "cell"

\* the tab a run's rows were read from
ReadTab(p) == IF p.sheetTitle = Null THEN FirstTab(p.sheetId) ELSE p.sheetTitle

\* C20: every status write a run issues (header row or cell) targets the tab
\* the run's rows were read from, which is the spreadsheet's first tab when
\* sheetTitle is unspecified.
C20_StatusWrittenToTheTabRead ==
  \A q \in net :
    q.kind \in {"header", "cell"} => q.title = ReadTab(run[q.run].params)

\* C19: updateSheetStatus never raises: no call of it ends by throwing, a
\* call that has ended has returned a result; and a campaign run in which a
\* status write failed does not end by that failure (if it ended by an
\* error at all, a send had failed).
C19_StatusWriteNeverRaises ==
  /\ \A a \in AuthIds :
       auth[a].op = "updateSheetStatus" =>
         /\ auth[a].pc # "threw"
         /\ auth[a].pc = "returned" => "success" \in DOMAIN auth[a].result
  /\ \A id \in JobIds :
       (run[id].pc = "failed" /\ run[id].hdrFail \cup run[id].cellFail # {}) =>
          run[id].sendFail # {}

\* C21: calling ensureStatusColumn twice on the same header list appends
\* "Status" at most once and writes the header row at most once; the second
\* call changes nothing and returns the same index as the first.  The calls
\* of one run all receive the run's header list.
C21_EnsureStatusColumnIdempotent ==
  \A id \in JobIds :
    LET e == run[id].ensure
    IN /\ Cardinality({k \in 1..Len(e) : e[k].pushed}) <= 1
       /\ Len(e) >= 2 => (~e[2].pushed /\ e[2].idx = e[1].idx)

\* C22: the status of the data row at 0-based index i, counting every data
\* row in sheet order with the skipped rows included, is written to sheet
\* row i + 2.
C22_StatusRowIsIndexPlusTwo ==
  /\ \A id \in JobIds :
       \A j \in run[id].statusDone \ run[id].cellFail :
         \E c \in cells : c.sheetId = run[id].params.sheetId /\ c.row = j + 2
  /\ \A c \in cells :
       \E id \in JobIds :
         /\ run[id].pc # "none"
         /\ run[id].params.sheetId = c.sheetId
         /\ (c.row - 2) \in run[id].statusDone \ run[id].cellFail

\* the status of the second data row of a sheet whose first data row was
\* skipped went to sheet row 3
C22_Witness ==
  \E id \in JobIds :
    /\ run[id].statusDone = {1}
    /\ \E c \in cells : c.sheetId = "S2" /\ c.row = 3

\* the 0-based indexes of the rows of a run that have no recipient
NoRecipient(r) ==
  {j \in 0..(Len(r.rows) - 1) :
     \/ Len(r.rows[j + 1]) < r.emailIdx + 1
     \/ r.rows[j + 1][r.emailIdx + 1] = ""}

\* C23: a row whose recipient cell is empty or missing is silently skipped:
\* nothing is sent for it, no status is written for it, it is not counted as
\* a failure, and the run goes on to the rows after it.
C23_EmptyRecipientSkipped ==
  \A id \in JobIds :
    LET r == run[id]
    IN r.emailIdx >= 0 =>
         /\ \A j \in NoRecipient(r) :
              /\ j \notin (r.sendOk \cup r.sendFail \cup r.statusDone \cup r.delayDone)
              /\ ~\E q \in net : q.run = id /\ q.row = j
              /\ ~\E d \in delays : d.run = id /\ d.row = j
         /\ \A j \in NoRecipient(r) :
              (r.pc = "failed" /\ r.i > j) => r.sendFail # {}
         /\ r.pc = "done" =>
              r.sendOk = (0..(Len(r.rows) - 1)) \ NoRecipient(r)

\* a run over a sheet whose first row has no recipient has ended normally
\* after sending to the second row only
C23_Witness ==
  \E id \in JobIds :
    /\ run[id].pc = "done"
    /\ 0 \in NoRecipient(run[id])
    /\ run[id].sendOk = {1}

\* C24: for every delaySeconds >= 0, 0 included, the pause between one send
\* and the next of the same run is at least delaySeconds seconds and less
\* than delaySeconds + 2 seconds.
C24_PauseWithinTwoSecondsOfDelay ==
  \A d \in delays :
    LET delaySeconds == run[d.run].params.delaySeconds
    IN /\ d.ms >= delaySeconds * 1000
       /\ d.ms < (delaySeconds + 2) * 1000

\* C25: a run that has iterated all rows has emitted one completion signal,
\* whose count is the number of rows a send was attempted for; the rows
\* skipped for an empty recipient are not part of the count.
C25_CompletionCountsAttemptedRows ==
  \A id \in JobIds :
    run[id].pc = "done" =>
      run[id].signals =
        <<Cardinality(run[id].sendOk \cup run[id].sendFail)>>

\* whether a header, lower-cased, contains "email"
NamesEmail(h) == includes(toLowerCase(h), STR_email)

\* nothing was sent by the run and nothing written to its sheet
NothingSentOrWritten(id) ==
  /\ run[id].sendOk \cup run[id].sendFail = {}
  /\ ~\E q \in net : q.run = id
  /\ ~\E c \in cells : c.sheetId = run[id].params.sheetId
  /\ sheetHdr[run[id].params.sheetId] = InitialHeader(run[id].params.sheetId)

\* C26: a run fails with "No data found in sheet" when the read returns no
\* rows at all and with "No Email column found" when no header contains
\* "email" after lower-casing, and then nothing is sent and nothing written;
\* otherwise the recipient column is the first header that, lower-cased,
\* contains "email".
C26_EmptySheetAndNoEmailColumnFail ==
  \A id \in JobIds :
    LET r == run[id]
        read == /\ r.pc \notin {"none", "awaitGet"}
                /\ r.error \in {Null, "No data found in sheet",
                                "No Email column found"}
    IN /\ r.error = "No data found in sheet" =>
            (InitialHeader(r.params.sheetId) = <<>> /\ NothingSentOrWritten(id))
       /\ r.error = "No Email column found" =>
            /\ \A k \in 1..Len(r.headers) : ~NamesEmail(r.headers[k])
            /\ NothingSentOrWritten(id)
       /\ (read /\ InitialHeader(r.params.sheetId) = <<>>) =>
            r.error = "No data found in sheet"
       /\ (read /\ r.headers # <<>>
             /\ \A k \in 1..Len(r.headers) : ~NamesEmail(r.headers[k])) =>
            r.error = "No Email column found"
       /\ (r.headers # <<>> /\ \E k \in 1..Len(r.headers) : NamesEmail(r.headers[k])) =>
            /\ r.error # "No Email column found"
            /\ NamesEmail(r.headers[r.emailIdx + 1])
            /\ \A k \in 1..r.emailIdx : ~NamesEmail(r.headers[k])

\* a run over the headers Name, Email has taken column 1 for the recipients
\* and has sent to its first row
C26_Witness ==
  \E id \in JobIds :
    /\ 0 \in run[id].sendOk
    /\ SubSeq(run[id].headers, 1, 2) = <<H_Name, H_Email>>
    /\ run[id].emailIdx = 1

\* the credential object a document selects: its web object, else its
\* installed object, else the document itself
SelectedCredentials(raw) ==
  IF "web" \in DOMAIN raw THEN raw.web
  ELSE IF "installed" \in DOMAIN raw THEN raw.installed
  ELSE raw

\* the object carries a non-empty value for the field
Carries(c, key) == key \in DOMAIN c /\ c[key] # ""

InvalidCredentials ==
  {"Missing client_id/client_secret", "Invalid credentials file format",
   "Missing client_id/client_secret in credentials"}

\* C27: normalizeCredentials succeeds exactly when the selected credential
\* object (web, installed or flat) carries a non-empty client_id and
\* client_secret; on success the returned client_id and client_secret are
\* the input's, otherwise it throws an invalid-credentials error and
\* returns nothing.
C27_NormalizeNeedsIdAndSecret ==
  \A a \in AuthIds :
    auth[a].op = "normalizeCredentials" =>
      LET c == SelectedCredentials(auth[a].arg)
          valid == Carries(c, "client_id") /\ Carries(c, "client_secret")
      IN /\ auth[a].pc = "returned" <=> valid
         /\ valid => /\ auth[a].result.client_id = c.client_id
                     /\ auth[a].result.client_secret = c.client_secret
         /\ ~valid => /\ auth[a].pc = "threw"
                      /\ auth[a].result.thrown \in InvalidCredentials

\* a flat document with both fields was normalized, its fields unchanged
C27_Witness ==
  \E a \in AuthIds :
    /\ auth[a].op = "normalizeCredentials"
    /\ auth[a].arg = [client_id |-> "cid", client_secret |-> "sec"]
    /\ auth[a].pc = "returned"
    /\ auth[a].result.client_id = "cid"

\* C28: for every text, header list and row, the output of renderWithRow
\* contains no ((h)) for a header h of the list whose row cell is not null,
\* a placeholder naming a header absent from the list remains verbatim, and
\* rendering the output again with the same headers and row returns it
\* unchanged.
C28_RenderLeavesNoPlaceholder ==
  \A a \in AuthIds :
    (auth[a].op = "renderWithRow" /\ auth[a].arg.signature = <<>>) =>
      LET in == auth[a].arg
          out == auth[a].result
      IN /\ \A k \in 1..Len(in.headers) :
              RowCell(in.row, k - 1) # None =>
                ~includes(out, Pattern(trim(in.headers[k])))
         /\ includes(in.content, Pattern(H_Phone)) =>
              includes(out, Pattern(H_Phone))
         /\ renderWithRow(out, in.headers, in.row, <<>>) = out

\* a sendEmail call that got as far as building its message
Built(a) ==
  /\ auth[a].op = "sendEmail"
  /\ "to" \in DOMAIN auth[a].arg
  /\ auth[a].result # [success |-> FALSE, error |-> "Not authenticated"]

IsDisposition(line) ==
  line # <<>> /\ line[1] = "Content-Disposition: attachment; filename="

\* the Content-Disposition: attachment lines of a message, in order
Dispositions(raw) == SelectSeq(raw, IsDisposition)

\* the message declares a multipart boundary or holds a boundary line
HasBoundaryMarker(raw) ==
  \E k \in 1..Len(raw) :
    /\ raw[k] # <<>>
    /\ raw[k][1] \in {"--", "Content-Type: multipart/mixed; boundary="}

OnDisk(p) == p \in DOMAIN Disk

\* C29 as stated: a message built with zero attachment paths has no MIME
\* boundary marker, and one built with N attachment paths has exactly N
\* "Content-Disposition: attachment" occurrences.
C29_OneDispositionPerPath ==
  \A a \in AuthIds :
    Built(a) =>
      LET paths == attachmentsOf(auth[a].arg)
      IN /\ Len(paths) = 0 => ~HasBoundaryMarker(auth[a].work)
         /\ Len(Dispositions(auth[a].work)) = Len(paths)

\* C29 amended: a message built with zero attachment paths has no MIME
\* boundary marker, and one built with N attachment paths has exactly one
\* "Content-Disposition: attachment" part header for each of those paths
\* that can be read (N when all can).
C29_OneDispositionPerReadablePath ==
  \A a \in AuthIds :
    Built(a) =>
      LET paths == attachmentsOf(auth[a].arg)
      IN /\ Len(paths) = 0 => ~HasBoundaryMarker(auth[a].work)
         /\ Len(Dispositions(auth[a].work)) = Len(SelectSeq(paths, OnDisk))

\* a message was built from two paths that can both be read and has two
\* attachment part headers
C29_Witness ==
  \E a \in AuthIds :
    /\ Built(a)
    /\ attachmentsOf(auth[a].arg) = <<"/d/a.pdf", "/d/notes">>
    /\ Len(Dispositions(auth[a].work)) = 2

\* C30: an attachment path that cannot be read is skipped and logged and does
\* not abort the message: the message is built with the body and one part
\* for each readable attachment, in the given order, and the send proceeds.
C30_UnreadableAttachmentSkipped ==
  \A a \in AuthIds :
    Built(a) =>
      LET paths == attachmentsOf(auth[a].arg)
          readable == SelectSeq(paths, OnDisk)
          parts == Dispositions(auth[a].work)
      IN /\ \A k \in 1..Len(paths) :
              ~OnDisk(paths[k]) =>
                 \E l \in log : /\ l.message = "Attachment read failed"
                                /\ l.path = paths[k]
         /\ \E k \in 1..Len(auth[a].work) :
              auth[a].work[k] = <<auth[a].arg.content>>
         /\ Len(parts) = Len(readable)
         /\ \A k \in 1..Len(readable) : parts[k][2] = basename(readable[k])
         /\ auth[a].pc \in {"awaitSendEmail", "returned"}
         /\ auth[a].pc = "awaitSendEmail" =>
              \E q \in authNet : /\ q.call = a /\ q.kind = "sendEmail"
                                 /\ q.raw = toBase64Url(auth[a].work)
         /\ auth[a].pc = "returned" =>
              auth[a].result \in {[success |-> TRUE, messageId |-> "m1"],
                                  [success |-> FALSE, error |-> "provider error"]}

\* a message whose second attachment could not be read was sent with the
\* first and the third
C30_Witness ==
  \E a \in AuthIds :
    /\ Built(a)
    /\ attachmentsOf(auth[a].arg) = <<"/d/a.pdf", "/d/gone.txt", "/d/notes">>
    /\ auth[a].pc = "returned"
    /\ auth[a].result.success
    /\ Len(Dispositions(auth[a].work)) = 2

\* a call of authenticate that has returned a failure
AuthenticateFailed(a) ==
  /\ auth[a].op = "authenticateGoogle"
  /\ auth[a].pc = "returned"
  /\ ~auth[a].result.success

\* C39: an authenticate call that returns a failure leaves the credential
\* store unchanged: googleCreds and googleToken after the call are what they
\* were before it
C39_FailedAuthenticateLeavesStore ==
  \A a \in AuthIds : AuthenticateFailed(a) => store = auth[a].before

\* a call of authenticate that has returned success
AuthenticateSucceeded(a) ==
  /\ auth[a].op = "authenticateGoogle"
  /\ auth[a].pc = "returned"
  /\ auth[a].result.success

\* C35: after authenticate succeeds, the mail and the spreadsheet client go
\* through the OAuth client that this call built, also when clients of an
\* earlier authentication existed before the call
C35_SuccessfulAuthenticateRotatesClients ==
  \A a \in AuthIds :
    AuthenticateSucceeded(a) =>
      /\ gmailService = auth[a].client
      /\ sheetsService = auth[a].client

\* the messages run id has handed to the provider, in the order of its sends
Messages(id) ==
  [k \in 1..Len(run[id].rendered) |-> Message(run[id], run[id].rendered[k])]

\* those of them that the provider accepted
SentMessages(id) ==
  {Messages(id)[k] : k \in {n \in 1..Len(run[id].rendered) :
                               run[id].rendered[n].row \in run[id].sendOk}}

\* C31: in a campaign the subject of each sent message is the subject
\* template rendered against the row it is sent for, as the body is
C31_SubjectRenderedPerRow ==
  \A id \in JobIds :
    \A m \in SentMessages(id) :
      m.subject = renderWithRow(run[id].params.subject, run[id].read,
                                RenderRow(run[id].rows[m.row + 1]), <<>>)

\* the body the template of run id gives for a message's row against the
\* header row as it was read from the sheet
BodyFromSheet(id, m) ==
  renderWithRow(run[id].params.content, run[id].read,
                RenderRow(run[id].rows[m.row + 1]), Text(run[id].signature))

\* C40: within one run the rendered body of a row depends only on the
\* template, the header row as read from the sheet, the row's cells and the
\* signature, whether or not earlier rows were sent and had their status
\* written
C40_BodyIndependentOfEarlierRows ==
  \A id \in JobIds :
    \A k \in 1..Len(run[id].rendered) :
      Messages(id)[k].text = BodyFromSheet(id, Messages(id)[k])

\* C32: in one campaign run a send is issued at most once for every data row
\* with a recipient, and only for such rows, and sends are issued in sheet
\* row order
C32_OneSendPerRowInRowOrder ==
  \A id \in JobIds :
    LET msgs == Messages(id)
    IN /\ \A k, l \in 1..Len(msgs) : k < l => msgs[k].row < msgs[l].row
       /\ \A k \in 1..Len(msgs) :
            /\ msgs[k].row \in 0..(Len(run[id].rows) - 1)
            /\ msgs[k].row \notin NoRecipient(run[id])
            /\ msgs[k].to = run[id].rows[msgs[k].row + 1][run[id].emailIdx + 1]

\* a run over three rows with recipients has ended after issuing the three
\* sends
C32_Witness ==
  \E id \in JobIds :
    /\ run[id].pc = "done"
    /\ Len(run[id].rendered) = 3
    /\ Messages(id)[3].to = "cy@x.com"

\* job id was registered and no cancelScheduled call has succeeded for it
NeverCancelled(id) == id < nextId /\ cancelled[id] = "no"

\* job id has fired, its run has ended and it is out of the registry
FiredAndRemoved(id) ==
  /\ id \notin DOMAIN timers
  /\ id \notin DOMAIN jobsMap
  /\ run[id].calls = 1
  /\ Ended(id)

\* the timer of a job whose startAt is not in the future has delay zero, and
\* no job invokes the campaign runner twice
ZeroDelayAndAtMostOneRun ==
  /\ \A id \in DOMAIN timers :
       timers[id].params.startAt <= timers[id].now => timers[id].ms = 0
  /\ \A id \in JobIds : run[id].calls <= 1

\* C33: under fair scheduling every registered job that is never cancelled
\* eventually fires, invokes the campaign runner exactly once and is removed
\* from the registry; a startAt that is not in the future gives delay zero
C33_UncancelledJobFiresOnceAndIsRemoved ==
  /\ []ZeroDelayAndAtMostOneRun
  /\ <>[](\A id \in 1..MaxJobs : NeverCancelled(id) => FiredAndRemoved(id))

\* a job whose startAt was in the past has run and is out of the registry
C33_Witness ==
  \E id \in JobIds :
    /\ NeverCancelled(id)
    /\ FiredAndRemoved(id)
    /\ run[id].params.startAt = 0
    /\ run[id].sendOk # {}

\* the sends of run id: one per row, in row order, each addressed to the
\* row's own recipient with the run's own subject, and once the run has
\* ended normally every row with a recipient has been sent to
OwnSends(id) ==
  LET r == run[id]
      msgs == Messages(id)
  IN /\ \A k, l \in 1..Len(msgs) : k < l => msgs[k].row < msgs[l].row
     /\ \A k \in 1..Len(msgs) :
          /\ msgs[k].to = DataRows(r.params.sheetId)[msgs[k].row + 1][r.emailIdx + 1]
          /\ msgs[k].subject = r.params.subject
          /\ msgs[k].text = renderWithRow(r.params.content, r.rendered[k].headers,
                                          RenderRow(DataRows(r.params.sheetId)[msgs[k].row + 1]),
                                          Text(r.signature))
     /\ r.pc = "done" =>
          /\ r.sendOk = Sendable(r, 0)
          /\ {msgs[k].row : k \in 1..Len(msgs)} = Sendable(r, 0)

\* the status cells on the sheets are cells of rows some run has sent to, in
\* the status column of that run's sheet, and a run that has ended normally
\* has the status of each of its rows on its own sheet
OwnStatus ==
  /\ \A c \in cells :
       \E id \in JobIds :
         /\ run[id].calls > 0
         /\ c.sheetId = run[id].params.sheetId
         /\ c.row - 2 \in run[id].sendOk
         /\ c.col = columnIndexToA1(findStatusIndex(sheetHdr[c.sheetId]))
         /\ c.text = "SENT"
  /\ \A id \in JobIds :
       run[id].pc = "done" =>
         \A j \in run[id].sendOk :
           \E c \in cells : c.sheetId = run[id].params.sheetId /\ c.row = j + 2
  /\ \A sid \in SheetIds :
       sheetHdr[sid] \in {InitialHeader(sid), Append(InitialHeader(sid), STR_Status)}

\* a job is in the registry from its registration until its own run ends
OwnRegistration ==
  \A id \in JobIds : id \in DOMAIN jobsMap <=> (id < nextId /\ ~Ended(id))

C36_OverlappingFlowsUseOwnClient ==
  /\ \A q \in authNet :
       q.kind = "token" => q.client = auth[q.call].client
  /\ \A a \in AuthIds :
       auth[a].tokens # <<>> => auth[a].tokens.flow = a

\* C37: in one interactive flow at most one authorization code is exchanged
\* for a token: after a callback with a code was accepted, or the flow has
\* settled, a further request starts no exchange
C37_AtMostOneExchangePerFlow ==
  \A a \in AuthIds : auth[a].exchanges <= 1

\* the listeners of flow a that were asked to bind and have not bound
Unbound(a) ==
  {k \in 1..Len(auth[a].servers) : auth[a].servers[k].state \in {"failed", "binding"}}

\* C38: the bind attempts of one flow are bounded: the fallback host/port
\* combinations are exhausted after finitely many attempts, so no
\* combination that failed to bind is tried again, and when every attempt
\* has failed no further listener is created and authenticate fails
C38_BindAttemptsExhaust ==
  \A a \in AuthIds :
    /\ \A k, l \in Unbound(a) :
         (k < l) =>
           <<auth[a].servers[k].host, auth[a].servers[k].port>>
             # <<auth[a].servers[l].host, auth[a].servers[l].port>>
    /\ (auth[a].servers # <<>> /\ \A k \in DOMAIN auth[a].servers :
                                     auth[a].servers[k].state = "failed")
         => (auth[a].pc = "returned" /\ ~auth[a].result.success)

====
